---- MODULE Spec2Model ----
(***************************************************************************)
(* Model of the content processor: the text pipeline                       *)
(* (src/src/services/document_processor.py: text normalisation, chunking   *)
(* with overlap and sentence-boundary search, document assembly, storage), *)
(* the text extractor (src/src/services/text_extractor.py) and the upload  *)
(* and reprocess operations (src/src/main.py).                             *)
(* Texts are sequences of one-character strings.                           *)
(***************************************************************************)
EXTENDS Integers, Sequences, FiniteSets, TLC

VARIABLES
    text,            \* the text handed to the operation under way
    chunk_size,      \* DocumentProcessor.chunk_size
    chunk_overlap,   \* DocumentProcessor.chunk_overlap
    min_chunk_size,  \* DocumentProcessor.min_chunk_size
    start,           \* _create_chunks: the loop's cursor
    chunk_index,     \* _create_chunks: the running index
    chunks,          \* _create_chunks: the list being built
    candidates,      \* history: every candidate span the loop looked at
    cleaned,         \* _clean_text(text)
    recleaned,       \* _clean_text(_clean_text(text))
    request,         \* process_document's other arguments
    document,        \* the Document process_document returned
    clock,           \* datetime.utcnow(), as a counter
    result,          \* what the function under way returned or raised
    calls,           \* history: the calls the function under way made, in order
    store,           \* the books collection: the stored documents, in insertion order
    pc               \* where the operation under way stands

vars == <<text, chunk_size, chunk_overlap, min_chunk_size,
          start, chunk_index, chunks, candidates, cleaned, recleaned,
          request, document, clock, result, calls, store, pc>>

chunkerVars == <<start, chunk_index, chunks, candidates>>
configVars == <<chunk_size, chunk_overlap, min_chunk_size>>
cleanVars == <<cleaned, recleaned>>
processVars == <<request, document, clock, result, calls, store>>

\* Python's None
None == "None"

\* ------------------------------------------------------------------ bounds
MaxLen == 5
MaxChunkSize == 3
MaxOverlap == 3
MaxMinChunk == 2

\* ------------------------------------------------------- program constants
\* "Look for sentence endings within last 100 chars"
SentenceWindow == 100

\* ------------------------------------------------------------- characters
\* The characters Python's str.strip()/str.split()/\s treat as whitespace
\* (the ones the model's texts use).
Whitespace == {" ", "\n"}

\* sentence_endings = ['.', '!', '?', '\n']
sentence_endings == {".", "!", "?", "\n"}

\* The texts _create_chunks is applied to: any string, not only cleaned ones.
ChunkAlphabet == {"a", " ", "."}

TextsOver(A, n) == UNION {[1..k -> A] : k \in 0..n}

Max(a, b) == IF a >= b THEN a ELSE b
Min(a, b) == IF a <= b THEN a ELSE b

\* Python slice s[a:b] with 0 <= a, b (0-based, end-exclusive, clamped).
Slice(s, a, b) ==
    LET lo == Min(Max(a, 0), Len(s))
        hi == Min(Max(b, 0), Len(s))
    IN IF hi <= lo THEN <<>> ELSE SubSeq(s, lo + 1, hi)

\* str.strip(): drop leading and trailing whitespace.
LStrip(s) ==
    IF \A i \in 1..Len(s) : s[i] \in Whitespace THEN <<>>
    ELSE SubSeq(s, CHOOSE i \in 1..Len(s) :
                       /\ s[i] \notin Whitespace
                       /\ \A j \in 1..(i - 1) : s[j] \in Whitespace,
                Len(s))

RStrip(s) ==
    IF \A i \in 1..Len(s) : s[i] \in Whitespace THEN <<>>
    ELSE SubSeq(s, 1, CHOOSE i \in 1..Len(s) :
                          /\ s[i] \notin Whitespace
                          /\ \A j \in (i + 1)..Len(s) : s[j] \in Whitespace)

Strip(s) == RStrip(LStrip(s))

\* len(s.split()): the number of maximal runs of non-whitespace characters.
WordCount(s) ==
    Cardinality({i \in 1..Len(s) :
        /\ s[i] \notin Whitespace
        /\ (i = 1 \/ s[i - 1] \in Whitespace)})

\* str.rfind(ch) on a window: 0-based index of the last occurrence, -1 if none.
RFind(w, ch) ==
    LET hits == {i \in 1..Len(w) : w[i] = ch}
    IN IF hits = {} THEN -1
       ELSE (CHOOSE i \in hits : \A j \in hits : j <= i) - 1

\* ------------------------------------------------------------ _clean_text
LowerLetters ==
    <<"a", "b", "c", "d", "e", "f", "g", "h", "i", "j", "k", "l", "m",
      "n", "o", "p", "q", "r", "s", "t", "u", "v", "w", "x", "y", "z">>

UpperLetters ==
    <<"A", "B", "C", "D", "E", "F", "G", "H", "I", "J", "K", "L", "M",
      "N", "O", "P", "Q", "R", "S", "T", "U", "V", "W", "X", "Y", "Z">>

Digits == {"0", "1", "2", "3", "4", "5", "6", "7", "8", "9"}

Range(f) == {f[i] : i \in DOMAIN f}

\* str.islower() / str.isupper() / str.isalpha() on one character
IsLower(c) == c \in Range(LowerLetters)
IsUpper(c) == c \in Range(UpperLetters)
IsAlpha(c) == IsLower(c) \/ IsUpper(c)

LetterIndex(letters, c) == CHOOSE i \in DOMAIN letters : letters[i] = c

\* str.lower() / str.upper() on one character
ToLower(c) == IF IsUpper(c) THEN LowerLetters[LetterIndex(UpperLetters, c)] ELSE c
ToUpper(c) == IF IsLower(c) THEN UpperLetters[LetterIndex(LowerLetters, c)] ELSE c

Lower(s) == [i \in 1..Len(s) |-> ToLower(s[i])]

\* \w: letters, digits and the underscore.
WordChars == Range(LowerLetters) \cup Range(UpperLetters) \cup Digits \cup {"_"}

\* The punctuation the second regex keeps: . , ! ? ; : - ( ) [ ] { } " '
KeptPunctuation ==
    {".", ",", "!", "?", ";", ":", "-", "(", ")", "[", "]", "{", "}", "\"", "'"}

\* A character outside [^\w\s\.\,\!\?\;\:\-\(\)\[\]\{\}\"\']
Allowed(c) == c \in WordChars \cup Whitespace \cup KeptPunctuation

\* re.sub(r'\s+', ' ', text): every maximal run of whitespace becomes one space.
CollapseWhitespace(s) ==
    LET kept == SelectSeq([i \in 1..Len(s) |-> i],
                          LAMBDA i : s[i] \notin Whitespace \/ i = 1
                                     \/ s[i - 1] \notin Whitespace)
    IN [k \in 1..Len(kept) |-> IF s[kept[k]] \in Whitespace THEN " " ELSE s[kept[k]]]

\* re.sub(r'[^...]+', '', text): every run of disallowed characters is removed.
RemoveDisallowed(s) == SelectSeq(s, Allowed)

\* re.sub(r'\n+', '\n', text): every maximal run of newlines becomes one newline.
CollapseNewlines(s) ==
    LET kept == SelectSeq([i \in 1..Len(s) |-> i],
                          LAMBDA i : ~(s[i] = "\n" /\ i < Len(s) /\ s[i + 1] = "\n"))
    IN [k \in 1..Len(kept) |-> s[kept[k]]]

\* _clean_text: the four steps in the order of the source.
CleanText(s) == Strip(CollapseNewlines(RemoveDisallowed(CollapseWhitespace(s))))

\* ---------------------------------------------------------------- chunker
\* DocumentChunk(index, content, start_position, end_position, word_count,
\* character_count)
DocumentChunk(idx, content, s, e) ==
    [index |-> idx, content |-> content, start_position |-> s,
     end_position |-> e, word_count |-> WordCount(content),
     character_count |-> Len(content)]

\* Mutant: the single-chunk path strips its content like the loop does.
SingleChunkStripped(t) == DocumentChunk(0, Strip(t), 0, Len(t))

\* The single-chunk path: the whole text, unstripped, whatever its length.
SingleChunk(t) == DocumentChunk(0, t, 0, Len(t))

\* for ending in sentence_endings: pos = chunk_text.rfind(ending); keep the max
LastSentenceEnd(w) ==
    LET found == {RFind(w, ch) : ch \in sentence_endings} \cup {-1}
    IN CHOOSE p \in found : \A q \in found : q <= p

\* Mutant: the search window is the whole candidate, not its last 100
\* characters.
CandidateEndWholeSpan(t, st, cs) ==
    LET end0 == Min(st + cs, Len(t))
        last_sentence_end == LastSentenceEnd(Slice(t, st, end0))
    IN IF end0 < Len(t) /\ last_sentence_end > 0
       THEN st + last_sentence_end + 1
       ELSE end0

\* The candidate's end: min(start + chunk_size, len), moved back to just after
\* the last sentence ending of the search window unless the candidate reaches
\* the end of the text or the ending sits at window position 0 (or is absent).
CandidateEnd(t, st, cs) ==
    LET end0 == Min(st + cs, Len(t))
        search_start == Max(end0 - SentenceWindow, st)
        last_sentence_end == LastSentenceEnd(Slice(t, search_start, end0))
    IN IF end0 < Len(t) /\ last_sentence_end > 0
       THEN search_start + last_sentence_end + 1
       ELSE end0

\* Mutant: the candidate's text is kept as it is, edges included.
ChunkContentUnstripped(t, st, e) == Slice(t, st, e)

\* chunk_content = text[start:end].strip()
ChunkContent(t, st, e) == Strip(Slice(t, st, e))

\* Mutant: the size test is gone, every candidate is kept.
KeepChunkAlways(content, mn) == TRUE

\* Mutant: the size test only rejects empty candidates.
KeepChunkNonEmpty(content, mn) == Len(content) >= 1

\* if len(chunk_content) >= self.min_chunk_size
KeepChunk(content, mn) == Len(content) >= mn

\* Mutant: chunk_index += 1 moved out of the `if`.
NextIndexEveryCandidate(idx, keep) == idx + 1

\* chunk_index += 1, inside the `if`: only an emitted chunk takes an index
NextIndex(idx, keep) == IF keep THEN idx + 1 ELSE idx

\* Mutant: the cursor moves to the candidate's end, the overlap is forgotten.
NextStartNoOverlap(st, e, ov) == Max(st + 1, e)

\* Mutant: the forward-progress guard max(start + 1, ...) is gone.
NextStartNoProgress(st, e, ov) == e - ov

\* Mutant: the cursor is only kept from going negative, not from standing
\* still or going back.
NextStartUnguarded(st, e, ov) == Max(0, e - ov)

\* Mutant: the cursor jumps over the character at the candidate's end.
NextStartSkipping(st, e, ov) == e + 1

\* start = max(start + 1, end - self.chunk_overlap)
NextStart(st, e, ov) == Max(st + 1, e - ov)

\* The while loop run to completion, as process_document uses it.
RECURSIVE ChunkLoop(_, _, _, _, _, _, _)
ChunkLoop(t, cs, ov, mn, st, idx, acc) ==
    IF st >= Len(t) THEN acc
    ELSE LET e == CandidateEnd(t, st, cs)
             c == ChunkContent(t, st, e)
             keep == KeepChunk(c, mn)
         IN ChunkLoop(t, cs, ov, mn, NextStart(st, e, ov),
                      NextIndex(idx, keep),
                      IF keep THEN Append(acc, DocumentChunk(idx, c, st, e))
                      ELSE acc)

CreateChunks(t, cs, ov, mn) ==
    IF Len(t) <= cs THEN <<SingleChunk(t)>>
    ELSE ChunkLoop(t, cs, ov, mn, 0, 0, <<>>)

\* ---------------------------------------------------------- _extract_title
\* filename.rsplit('.', 1)[0]: what precedes the last dot, or the whole name.
RemoveExtension(filename) ==
    LET p == RFind(filename, ".")
    IN IF p < 0 THEN filename ELSE Slice(filename, 0, p)

\* re.sub(r'[_\-]+', ' ', title): every run of _ and - becomes one space.
DashesToSpaces(s) ==
    LET dash(i) == s[i] \in {"_", "-"}
        kept == SelectSeq([i \in 1..Len(s) |-> i],
                          LAMBDA i : ~(dash(i) /\ i < Len(s) /\ dash(i + 1)))
    IN [k \in 1..Len(kept) |-> IF dash(kept[k]) THEN " " ELSE s[kept[k]]]

\* str.title(): a letter is upper-cased after a non-letter (or at the start)
\* and lower-cased after a letter.
TitleCase(s) ==
    [i \in 1..Len(s) |->
        IF ~IsAlpha(s[i]) THEN s[i]
        ELSE IF i = 1 \/ ~IsAlpha(s[i - 1]) THEN ToUpper(s[i]) ELSE ToLower(s[i])]

\* str.split(sep) for a one-character separator: the segments between them.
RECURSIVE SplitChar(_, _)
SplitChar(s, sep) ==
    LET hits == {i \in 1..Len(s) : s[i] = sep}
    IN IF hits = {} THEN <<s>>
       ELSE LET i == CHOOSE k \in hits : \A j \in hits : k <= j
            IN <<SubSeq(s, 1, i - 1)>> \o SplitChar(SubSeq(s, i + 1, Len(s)), sep)

\* ['document', 'file', 'text']
GenericTitles ==
    {<<"d", "o", "c", "u", "m", "e", "n", "t">>,
     <<"f", "i", "l", "e">>,
     <<"t", "e", "x", "t">>}

MinTitleLen == 3
TitleScanChars == 500
TitleScanLines == 5
MinLineLen == 5
MaxLineLen == 100
MaxTitleLen == 100

\* len(line) > 5 and len(line) < 100 and line[0].isupper()
TitleLike(line) ==
    Len(line) > MinLineLen /\ Len(line) < MaxLineLen /\ IsUpper(line[1])

\* _extract_title with the loop keeping the last title-like line (no break).
RECURSIVE LastTitleLike(_, _)
LastTitleLike(lines, fallback) ==
    IF lines = <<>> THEN fallback
    ELSE LET later == LastTitleLike(Tail(lines), fallback)
         IN IF later = fallback /\ TitleLike(Strip(Head(lines)))
            THEN Strip(Head(lines))
            ELSE later

\* for line in lines[:5]: line = line.strip(); the first title-like one wins
RECURSIVE FirstTitleLike(_, _)
FirstTitleLike(lines, fallback) ==
    IF lines = <<>> THEN fallback
    ELSE IF TitleLike(Strip(Head(lines))) THEN Strip(Head(lines))
         ELSE FirstTitleLike(Tail(lines), fallback)

\* _extract_title returning title instead of title[:100].
ExtractTitleUncut(filename, t) ==
    LET title == TitleCase(DashesToSpaces(RemoveExtension(filename)))
        lines == SplitChar(Slice(t, 0, TitleScanChars), "\n")
    IN IF Len(title) < MinTitleLen \/ Lower(title) \in GenericTitles
       THEN FirstTitleLike(Slice(lines, 0, TitleScanLines), title)
       ELSE title

ExtractTitle(filename, t) ==
    LET title == TitleCase(DashesToSpaces(RemoveExtension(filename)))
        lines == SplitChar(Slice(t, 0, TitleScanChars), "\n")
        chosen == IF Len(title) < MinTitleLen \/ Lower(title) \in GenericTitles
                  THEN FirstTitleLike(Slice(lines, 0, TitleScanLines), title)
                  ELSE title
    IN Slice(chosen, 0, MaxTitleLen)

\* -------------------------------------------------------- _detect_language
english_words ==
    {<<"t", "h", "e">>, <<"a", "n", "d">>, <<"i", "s">>, <<"i", "n">>,
     <<"t", "o">>, <<"o", "f">>, <<"a">>, <<"t", "h", "a", "t">>,
     <<"i", "t">>, <<"w", "i", "t", "h">>}

\* The ninth word is the two characters the source file holds there (an
\* e-grave read in the wrong encoding: an upper-case A-tilde and a diaeresis).
italian_words ==
    {<<"i", "l">>, <<"d", "i">>, <<"c", "h", "e">>, <<"e">>, <<"l", "a">>,
     <<"p", "e", "r">>, <<"i", "n">>, <<"u", "n">>, <<"A~", "..">>,
     <<"c", "o", "n">>}

\* f' {word} ' in text_lower
Contains(s, sub) ==
    \E i \in 0..(Len(s) - Len(sub)) : SubSeq(s, i + 1, i + Len(sub)) = sub

\* The count with `word in text_lower` in place of f' {word} ' in text_lower.
CountWordsUnspaced(words, text_lower) ==
    Cardinality({w \in words : Contains(text_lower, w)})

CountWords(words, text_lower) ==
    Cardinality({w \in words : Contains(text_lower, <<" ">> \o w \o <<" ">>)})

DetectLanguage(t) ==
    LET en_count == CountWords(english_words, Lower(t))
        it_count == CountWords(italian_words, Lower(t))
    IN IF en_count > it_count THEN "en"
       ELSE IF it_count > en_count THEN "it"
       ELSE "unknown"

\* -------------------------------------------------------- _create_metadata
WordsPerMinute == 200

CreateMetadata(t, filename, file_type, file_size) ==
    [file_type |-> file_type,
     file_size |-> file_size,
     word_count |-> WordCount(t),
     character_count |-> Len(t),
     estimated_reading_time |-> Max(1, WordCount(t) \div WordsPerMinute),
     language |-> DetectLanguage(t)]

\* ------------------------------------------------------- _generate_summary
\* text.split('. '): the segments between the occurrences of period-space,
\* found left to right without overlap.
RECURSIVE SplitSentences(_)
SplitSentences(s) ==
    LET hits == {i \in 1..(Len(s) - 1) : s[i] = "." /\ s[i + 1] = " "}
    IN IF hits = {} THEN <<s>>
       ELSE LET i == CHOOSE k \in hits : \A j \in hits : k <= j
            IN <<SubSeq(s, 1, i - 1)>> \o SplitSentences(SubSeq(s, i + 2, Len(s)))

\* '. '.join(parts)
RECURSIVE JoinSentences(_)
JoinSentences(parts) ==
    IF parts = <<>> THEN <<>>
    ELSE IF Len(parts) = 1 THEN parts[1]
         ELSE parts[1] \o <<".", " ">> \o JoinSentences(Tail(parts))

SummarySentences == 3
SummaryMaxLen == 500

\* _generate_summary without the cut to 500 characters.
GenerateSummaryUncut(t) ==
    JoinSentences(Slice(SplitSentences(t), 0, SummarySentences))

GenerateSummary(t) ==
    LET summary == JoinSentences(Slice(SplitSentences(t), 0, SummarySentences))
    IN IF Len(summary) > SummaryMaxLen
       THEN Slice(summary, 0, SummaryMaxLen) \o <<".", ".", ".">>
       ELSE summary

\* -------------------------------------------------------- process_document
\* Mutant: the metadata is built from the raw text, not the cleaned one.
ProcessDocumentRawMetadata(t, filename, file_type, user_id, cs, ov, mn, now) ==
    LET cleaned_text == CleanText(t)
    IN [title |-> ExtractTitle(filename, cleaned_text),
        content |-> cleaned_text,
        summary |-> GenerateSummary(cleaned_text),
        chunks |-> CreateChunks(cleaned_text, cs, ov, mn),
        user_id |-> user_id,
        metadata |-> CreateMetadata(t, filename, file_type, Len(t)),
        uploaded_at |-> now,
        processed_at |-> now,
        status |-> "completed"]

\* The Document process_document returns. Nothing in the body can raise on
\* a string, so the except branch is never taken.
ProcessDocument(t, filename, file_type, user_id, cs, ov, mn, now) ==
    LET cleaned_text == CleanText(t)
    IN [title |-> ExtractTitle(filename, cleaned_text),
        content |-> cleaned_text,
        summary |-> GenerateSummary(cleaned_text),
        chunks |-> CreateChunks(cleaned_text, cs, ov, mn),
        user_id |-> user_id,
        metadata |-> CreateMetadata(cleaned_text, filename, file_type, Len(t)),
        uploaded_at |-> now,
        processed_at |-> now,
        status |-> "completed"]

\* No process_document call under way.
ProcessIdle ==
    /\ request = None
    /\ document = None
    /\ clock = 0
    /\ result = None
    /\ calls = <<>>
    /\ store = <<>>

\* --- _create_chunks, one loop iteration per step -------------------------
InitChunks ==
    /\ text \in TextsOver(ChunkAlphabet, MaxLen)
    /\ chunk_size \in 1..MaxChunkSize
    /\ chunk_overlap \in 1..MaxOverlap
    /\ min_chunk_size \in 1..MaxMinChunk
    /\ start = 0
    /\ chunk_index = 0
    /\ chunks = <<>>
    /\ candidates = <<>>
    /\ cleaned = <<>>
    /\ recleaned = <<>>
    /\ ProcessIdle
    /\ pc = "entry"

\* if text_length <= self.chunk_size: one chunk with the whole text
ChunkSingle ==
    /\ pc = "entry"
    /\ Len(text) <= chunk_size
    /\ chunks' = Append(chunks, SingleChunk(text))
    /\ pc' = "done"
    /\ UNCHANGED <<text, configVars, start, chunk_index, candidates, cleanVars, processVars>>

\* else: start = 0; chunk_index = 0
ChunkEnterLoop ==
    /\ pc = "entry"
    /\ Len(text) > chunk_size
    /\ start' = 0
    /\ chunk_index' = 0
    /\ pc' = "loop"
    /\ UNCHANGED <<text, configVars, chunks, candidates, cleanVars, processVars>>

\* One iteration of `while start < text_length`. candidates records every
\* candidate span the loop looked at, emitted or dropped.
ChunkIterate ==
    /\ pc = "loop"
    /\ start < Len(text)
    /\ LET e == CandidateEnd(text, start, chunk_size)
           c == ChunkContent(text, start, e)
           keep == KeepChunk(c, min_chunk_size)
       IN /\ chunks' = IF keep
                       THEN Append(chunks, DocumentChunk(chunk_index, c, start, e))
                       ELSE chunks
          /\ chunk_index' = NextIndex(chunk_index, keep)
          /\ candidates' = Append(candidates,
                                  [start |-> start, end |-> e, emitted |-> keep])
          /\ start' = NextStart(start, e, chunk_overlap)
    /\ UNCHANGED <<text, configVars, cleanVars, pc, processVars>>

\* The loop condition fails: return chunks.
ChunkReturn ==
    /\ pc = "loop"
    /\ start >= Len(text)
    /\ pc' = "done"
    /\ UNCHANGED <<text, configVars, chunkerVars, cleanVars, processVars>>

NextChunks == ChunkSingle \/ ChunkEnterLoop \/ ChunkIterate \/ ChunkReturn

SpecChunks == InitChunks /\ [][NextChunks]_vars

\* ------------------------------------------------- claims on _create_chunks
MultiChunkPath == Len(text) > chunk_size

\* Some candidate was dropped and a later one emitted.
DroppedThenEmitted ==
    \E i, j \in 1..Len(candidates) :
        i < j /\ ~candidates[i].emitted /\ candidates[j].emitted

\* C1: a text no longer than chunk_size (the empty text included) yields
\* exactly one chunk: index 0, content the text itself, positions 0 and
\* len(text).
C1_ShortTextSingleChunk ==
    (pc = "done" /\ Len(text) <= chunk_size) =>
        /\ Len(chunks) = 1
        /\ chunks[1].index = 0
        /\ chunks[1].content = text
        /\ chunks[1].start_position = 0
        /\ chunks[1].end_position = Len(text)

\* A short text with whitespace at an edge went through the single-chunk path.
C1_Witness ==
    /\ pc = "done"
    /\ Len(text) <= chunk_size
    /\ Len(text) >= 2
    /\ text[1] = " "
    /\ Len(chunks) = 1

\* C2: in the multi-chunk path the chunks carry the indices 0..n-1 in list
\* order, and the running index is the number of chunks emitted so far: a
\* dropped candidate takes no index.
C2_IndicesContiguous ==
    MultiChunkPath =>
        /\ \A i \in 1..Len(chunks) : chunks[i].index = i - 1
        /\ chunk_index = Len(chunks)

\* A run that dropped a candidate and emitted at least two chunks, one of
\* them after the drop.
C2_Witness ==
    /\ pc = "done"
    /\ MultiChunkPath
    /\ Len(chunks) >= 2
    /\ DroppedThenEmitted

\* C3: in the multi-chunk path every returned chunk has
\* character_count >= min_chunk_size.
C3_MultiChunkMinSize ==
    MultiChunkPath =>
        \A i \in 1..Len(chunks) : chunks[i].character_count >= min_chunk_size

\* A multi-chunk run with min_chunk_size 2 that kept a chunk and dropped a
\* candidate.
C3_Witness ==
    /\ pc = "done"
    /\ MultiChunkPath
    /\ min_chunk_size >= 2
    /\ Len(chunks) >= 1
    /\ \E k \in 1..Len(candidates) : ~candidates[k].emitted

\* C4 as stated: whatever the length of the text, every returned chunk has
\* character_count >= min_chunk_size.
C4_Original ==
    \A i \in 1..Len(chunks) : chunks[i].character_count >= min_chunk_size

\* C4 amended: a returned chunk is shorter than min_chunk_size only in the
\* single-chunk path, where the one chunk is the whole text kept whatever
\* its length; every candidate the loop dropped is absent from the result
\* and every chunk of the loop is an emitted candidate.
C4_MinSizeExceptSingleChunk ==
    /\ \A i \in 1..Len(chunks) :
          \/ chunks[i].character_count >= min_chunk_size
          \/ /\ ~MultiChunkPath
             /\ Len(chunks) = 1
             /\ chunks[1].content = text
             /\ chunks[1].character_count = Len(text)
    /\ \A k \in 1..Len(candidates) :
          candidates[k].emitted <=>
              \E i \in 1..Len(chunks) :
                  /\ chunks[i].start_position = candidates[k].start
                  /\ chunks[i].end_position = candidates[k].end

\* The single-chunk path returned a chunk shorter than min_chunk_size.
C4_Witness ==
    /\ pc = "done"
    /\ ~MultiChunkPath
    /\ Len(chunks) = 1
    /\ chunks[1].character_count < min_chunk_size

\* C5 as stated: every returned chunk, the empty text's included, has
\* end_position > start_position.
C5_EndAfterStart ==
    \A i \in 1..Len(chunks) : chunks[i].end_position > chunks[i].start_position

\* C6 as stated: in the multi-chunk path each returned chunk starts before
\* the end of the chunk returned before it.
C6_Original ==
    MultiChunkPath =>
        \A i \in 1..(Len(chunks) - 1) :
            chunks[i + 1].start_position < chunks[i].end_position

\* Chunks i and i+1 come from candidates the loop looked at one right after
\* the other (starts identify candidates: the cursor never repeats).
AdjacentCandidates(i) ==
    \E k \in 1..(Len(candidates) - 1) :
        /\ candidates[k].start = chunks[i].start_position
        /\ candidates[k + 1].start = chunks[i + 1].start_position

\* C6 amended: in the multi-chunk path every candidate starts at or before
\* the end of the candidate before it, and with chunk_size >= 2 strictly
\* before it; so two consecutive returned chunks share a position whenever
\* chunk_size >= 2 and no candidate was dropped between them.
C6_OverlapBetweenAdjacentCandidates ==
    MultiChunkPath =>
        /\ \A k \in 1..(Len(candidates) - 1) :
              /\ candidates[k + 1].start <= candidates[k].end
              /\ chunk_size >= 2 => candidates[k + 1].start < candidates[k].end
        /\ \A i \in 1..(Len(chunks) - 1) :
              (chunk_size >= 2 /\ AdjacentCandidates(i)) =>
                  chunks[i + 1].start_position < chunks[i].end_position

\* Two chunks returned from adjacent candidates, with chunk_size >= 2.
C6_Witness ==
    /\ pc = "done"
    /\ MultiChunkPath
    /\ chunk_size >= 2
    /\ \E i \in 1..(Len(chunks) - 1) :
          AdjacentCandidates(i)
          /\ chunks[i + 1].start_position < chunks[i].end_position

\* C7: every iteration of the loop moves the cursor forward by at least one
\* position, whatever the overlap; the cursor never passes len(text), so the
\* loop makes at most len(text) iterations; and once start >= len(text) the
\* only step left is the return.
C7_LoopTerminates ==
    [][/\ (pc = "loop" /\ pc' = "loop") => start' >= start + 1
       /\ pc' = "loop" =>
             (start' <= Len(text') /\ Len(candidates') <= start')
       /\ (pc = "loop" /\ start >= Len(text)) => pc' = "done"]_vars

\* A finished multi-chunk run with overlap >= chunk_size and several
\* iterations.
C7_Witness ==
    /\ pc = "done"
    /\ MultiChunkPath
    /\ chunk_overlap >= chunk_size
    /\ Len(candidates) >= 3
    /\ start >= Len(text)

\* ------------------------------------------------------- _clean_text runs
\* The raw texts _clean_text is applied to.
RawAlphabet == {"a", " ", "\n", "#", "."}

ChunkerIdle ==
    /\ start = 0
    /\ chunk_index = 0
    /\ chunks = <<>>
    /\ candidates = <<>>

\* settings.CHUNK_SIZE, CHUNK_OVERLAP, MIN_CHUNK_SIZE
CHUNK_SIZE == 1000
CHUNK_OVERLAP == 100
MIN_CHUNK_SIZE == 100

DefaultConfig ==
    /\ chunk_size = CHUNK_SIZE
    /\ chunk_overlap = CHUNK_OVERLAP
    /\ min_chunk_size = MIN_CHUNK_SIZE

InitClean ==
    /\ text \in TextsOver(RawAlphabet, MaxLen)
    /\ DefaultConfig
    /\ ChunkerIdle
    /\ cleaned = <<>>
    /\ recleaned = <<>>
    /\ ProcessIdle
    /\ pc = "raw"

\* cleaned = _clean_text(text)
Clean ==
    /\ pc = "raw"
    /\ cleaned' = CleanText(text)
    /\ pc' = "cleaned"
    /\ UNCHANGED <<text, configVars, chunkerVars, recleaned, processVars>>

\* _clean_text applied to its own output (as reprocess_document does with the
\* stored content).
CleanAgain ==
    /\ pc = "cleaned"
    /\ recleaned' = CleanText(cleaned)
    /\ pc' = "recleaned"
    /\ UNCHANGED <<text, configVars, chunkerVars, cleaned, processVars>>

NextClean == Clean \/ CleanAgain

SpecClean == InitClean /\ [][NextClean]_vars

\* --------------------------------------------------- claims on _clean_text
\* C8 as stated: cleaning a cleaned text changes nothing.
C8_CleanIdempotent ==
    pc = "recleaned" => recleaned = cleaned

\* C9 as stated: a cleaned text has no two whitespace characters in a row
\* and no whitespace at either end.
C9_NoWhitespaceRuns ==
    pc \in {"cleaned", "recleaned"} =>
        /\ \A i \in 1..(Len(cleaned) - 1) :
              ~(cleaned[i] \in Whitespace /\ cleaned[i + 1] \in Whitespace)
        /\ cleaned /= <<>> =>
              (cleaned[1] \notin Whitespace /\ cleaned[Len(cleaned)] \notin Whitespace)

\* -------------------------------------------------- process_document runs
\* The raw texts process_document is applied to.
ProcessAlphabet == {"a", " ", "#"}

\* "a_b.a" keeps its filename-derived title; "a" is too short to keep it.
Filenames == {<<"a", "_", "b", ".", "a">>, <<"a">>}

Requests ==
    [filename : Filenames, file_type : {"text/plain"}, user_id : {None, "u1"}]

InitProcess ==
    /\ text \in TextsOver(ProcessAlphabet, MaxLen)
    /\ chunk_size \in 1..MaxChunkSize
    /\ chunk_overlap \in 1..MaxOverlap
    /\ min_chunk_size \in 1..MaxMinChunk
    /\ ChunkerIdle
    /\ cleaned = <<>>
    /\ recleaned = <<>>
    /\ request \in Requests
    /\ document = None
    /\ clock = 0
    /\ result = None
    /\ calls = <<>>
    /\ store = <<>>
    /\ pc = "request"

\* await process_document(text, filename, file_type, user_id): the body has
\* no await of its own, it runs in one piece.
Process ==
    /\ pc = "request"
    /\ clock' = clock + 1
    /\ document' = ProcessDocument(text, request.filename, request.file_type,
                                   request.user_id, chunk_size, chunk_overlap,
                                   min_chunk_size, clock')
    /\ pc' = "processed"
    /\ UNCHANGED <<text, configVars, chunkerVars, cleanVars, request, result, calls, store>>

NextProcess == Process

SpecProcess == InitProcess /\ [][NextProcess]_vars

\* ---------------------------------------------- claims on process_document
\* C10: the Document's content is the cleaned text, and its metadata's
\* character_count is the length of that same cleaned text.
C10_MetadataFromCleanedText ==
    pc = "processed" =>
        /\ document.content = CleanText(text)
        /\ document.metadata.character_count = Len(CleanText(text))
        /\ document.metadata.character_count = Len(document.content)

\* A processed document whose cleaned text is non-empty and shorter than the
\* raw text.
C10_Witness ==
    /\ pc = "processed"
    /\ document.content /= <<>>
    /\ Len(document.content) < Len(text)
    /\ document.metadata.character_count = Len(document.content)

\* ----------------------------------------------------- _extract_title runs
MaxNameLen == 101
MaxLines == 6

\* n times the character c
Rep(c, n) == [i \in 1..n |-> c]

\* The lines joined with "\n" between them.
RECURSIVE JoinLines(_)
JoinLines(ls) ==
    IF ls = <<>> THEN <<>>
    ELSE IF Len(ls) = 1 THEN ls[1]
         ELSE ls[1] \o <<"\n">> \o JoinLines(Tail(ls))

\* File names whose title is too short or generic: the text is scanned.
ScannedFilenames ==
    {<<"a">>, <<"f", "i", "l", "e", ".", "t", "x", "t">>}

\* File names whose title is kept: an ordinary one, and ones as long as the
\* cut and longer.
KeptFilenames ==
    {<<"m", "y", "_", "d", "o", "c", ".", "p", "d", "f">>}
    \cup {Rep("a", n) : n \in MaxTitleLen..MaxNameLen}

\* An empty line, a capitalised line of 5 characters, one of 6, and one of 6
\* behind a space.
TitleLines ==
    {<<>>,
     <<"A", "b", "c", "d", "e">>,
     <<"A", "b", "c", "d", "e", "f">>,
     <<" ", "B", "c", "d", "e", "f", "g">>}

\* Texts at the limits: a capitalised line of 5, of 99 and of 100 characters,
\* a lower-case line, and a capitalised line across and just inside the first
\* 500 characters.
TitleLimitTexts ==
    {<<"A">> \o Rep("a", MinLineLen - 1) \o <<"\n">> \o <<"B">> \o Rep("b", MinLineLen),
     <<"A">> \o Rep("a", MaxLineLen - 2),
     <<"A">> \o Rep("a", MaxLineLen - 1) \o <<"\n">> \o <<"B">> \o Rep("b", MinLineLen),
     Rep("a", MinLineLen + 1) \o <<"\n">> \o <<"B">> \o Rep("b", MinLineLen),
     Rep("a", TitleScanChars - 4) \o <<"\n">> \o <<"B">> \o Rep("b", MinLineLen),
     Rep("a", TitleScanChars - 7) \o <<"\n">> \o <<"B">> \o Rep("b", MinLineLen)}

TitleTexts ==
    {JoinLines(ls) : ls \in UNION {[1..n -> TitleLines] : n \in 0..MaxLines}}
    \cup TitleLimitTexts

InitTitle ==
    /\ \/ request \in [filename : ScannedFilenames] /\ text \in TitleTexts
       \/ request \in [filename : KeptFilenames] /\ text \in TitleLimitTexts
    /\ DefaultConfig
    /\ ChunkerIdle
    /\ cleaned = <<>>
    /\ recleaned = <<>>
    /\ document = None
    /\ clock = 0
    /\ result = None
    /\ calls = <<>>
    /\ store = <<>>
    /\ pc = "title_args"

\* title = self._extract_title(filename, text)
Title ==
    /\ pc = "title_args"
    /\ result' = ExtractTitle(request.filename, text)
    /\ pc' = "titled"
    /\ UNCHANGED <<text, configVars, chunkerVars, cleanVars, request, document, clock, calls, store>>

NextTitle == Title

SpecTitle == InitTitle /\ [][NextTitle]_vars

\* --------------------------------------------------- claims on _extract_title
\* The title the file name gives: extension removed, runs of "_" and "-"
\* turned into one space, title-cased.
FilenameTitle == TitleCase(DashesToSpaces(RemoveExtension(request.filename)))

\* C11: whatever the file name and the text, the title _extract_title
\* returns has at most 100 characters.
C11_TitleAtMost100 ==
    pc = "titled" => Len(result) <= MaxTitleLen

\* A file name whose title has more than 100 characters, returned cut to 100.
C11_Witness ==
    /\ pc = "titled"
    /\ Len(FilenameTitle) > MaxTitleLen
    /\ result = SubSeq(FilenameTitle, 1, MaxTitleLen)

\* The file-name title is shorter than 3 characters or is, in lower case,
\* document, file or text.
ScansText == Len(FilenameTitle) < MinTitleLen \/ Lower(FilenameTitle) \in GenericTitles

\* The lines of the first 500 characters of the text.
ScannedLines == SplitChar(SubSeq(text, 1, Min(Len(text), TitleScanChars)), "\n")

\* The stripped line has more than 5 and fewer than 100 characters and
\* starts with an upper-case letter.
Qualifies(line) ==
    \E l \in {Strip(line)} :
        Len(l) > MinLineLen /\ Len(l) < MaxLineLen /\ IsUpper(l[1])

\* The title expected when the first 5 of the given lines are examined.
TitleAmong(lines, scans, title) ==
    LET n == Min(Len(lines), TitleScanLines)
        hits == {k \in 1..n : Qualifies(lines[k])}
    IN IF scans /\ hits /= {}
       THEN Strip(lines[CHOOSE k \in hits : \A j \in hits : k <= j])
       ELSE SubSeq(title, 1, Min(Len(title), MaxTitleLen))

\* C12 as stated: with a short or generic file-name title, the first
\* qualifying line among the first 5 non-empty lines is returned (empty lines
\* do not count toward the 5), else the file-name title.
C12_Original ==
    pc = "titled" =>
        \E lines \in {SelectSeq(ScannedLines, LAMBDA l : l /= <<>>)},
           scans \in {ScansText}, title \in {FilenameTitle} :
            result = TitleAmong(lines, scans, title)

\* C12, amended: with a short or generic file-name title, the first
\* qualifying line among the first 5 lines, empty ones included, of the first
\* 500 characters is returned, else the file-name title.
C12_FirstFiveLines ==
    pc = "titled" =>
        \E lines \in {ScannedLines}, scans \in {ScansText}, title \in {FilenameTitle} :
            result = TitleAmong(lines, scans, title)

\* A short or generic file name and a text whose sixth line qualifies behind
\* five lines that do not, one of them empty: the file-name title is returned.
C12_Witness ==
    /\ pc = "titled"
    /\ ScansText
    /\ \E lines \in {ScannedLines} :
          /\ Len(lines) > TitleScanLines
          /\ \E k \in 1..TitleScanLines : lines[k] = <<>>
          /\ \A k \in 1..TitleScanLines : ~Qualifies(lines[k])
          /\ Qualifies(lines[TitleScanLines + 1])
    /\ result = FilenameTitle

\* --------------------------------------------------- _detect_language runs
MaxWords == 4

\* The words joined with one space between them.
RECURSIVE JoinWords(_)
JoinWords(ws) ==
    IF ws = <<>> THEN <<>>
    ELSE IF Len(ws) = 1 THEN ws[1]
         ELSE ws[1] \o <<" ">> \o JoinWords(Tail(ws))

\* An English list word, an Italian one, one on both lists, a capitalised
\* English one, a word on neither list, and the empty word (which puts a
\* space at an end of the text, or two spaces in a row inside it).
LanguageWords ==
    {<<"t", "h", "e">>, <<"i", "l">>, <<"i", "n">>, <<"I", "t">>, <<"x">>, <<>>}

LanguageTexts ==
    {JoinWords(ws) : ws \in UNION {[1..n -> LanguageWords] : n \in 0..MaxWords}}

InitLanguage ==
    /\ text \in LanguageTexts
    /\ DefaultConfig
    /\ ChunkerIdle
    /\ cleaned = <<>>
    /\ recleaned = <<>>
    /\ ProcessIdle
    /\ pc = "language_args"

\* language = self._detect_language(text)
Detect ==
    /\ pc = "language_args"
    /\ result' = DetectLanguage(text)
    /\ pc' = "detected"
    /\ UNCHANGED <<text, configVars, chunkerVars, cleanVars, request, document, clock, calls, store>>

NextLanguage == Detect

SpecLanguage == InitLanguage /\ [][NextLanguage]_vars

\* ------------------------------------------------ claims on _detect_language
\* The word stands in the lower-cased text between two spaces.
OccursSpaced(w, t) ==
    \E i \in 1..Len(t) :
        /\ i + Len(w) + 1 <= Len(t)
        /\ t[i] = " "
        /\ \A k \in 1..Len(w) : ToLower(t[i + k]) = w[k]
        /\ t[i + Len(w) + 1] = " "

EnglishCount == Cardinality({w \in english_words : OccursSpaced(w, text)})
ItalianCount == Cardinality({w \in italian_words : OccursSpaced(w, text)})

\* C13: _detect_language counts, for each of the two lists of 10 words, the
\* words that stand in the lower-cased text between two spaces (a word only
\* at the very start or end is not counted); it returns en when the English
\* count is strictly greater, it when the Italian count is strictly greater,
\* unknown on a tie, 0-0 included.
C13_LanguageByStrictMajority ==
    pc = "detected" =>
        /\ Cardinality(english_words) = 10
        /\ Cardinality(italian_words) = 10
        /\ result = (IF EnglishCount > ItalianCount THEN "en"
                     ELSE IF ItalianCount > EnglishCount THEN "it"
                     ELSE "unknown")

\* A text that starts with an English list word, which is not counted, and
\* holds a word of both lists between spaces: a 1-1 tie, unknown.
C13_Witness ==
    /\ pc = "detected"
    /\ Len(text) > 3
    /\ SubSeq(text, 1, 4) = <<"t", "h", "e", " ">>
    /\ ~OccursSpaced(<<"t", "h", "e">>, text)
    /\ EnglishCount = 1
    /\ ItalianCount = 1
    /\ result = "unknown"

\* -------------------------------------------------- _generate_summary runs
MaxSegments == 4

\* The pieces texts are put together from, with ". " between them: empty,
\* ending in a period, and long ones (two of 249 characters join to 500).
SummarySegments ==
    {<<>>,
     <<"a", ".">>,
     Rep("a", (SummaryMaxLen \div 2) - 1),
     Rep("a", SummaryMaxLen),
     Rep("a", SummaryMaxLen + 1)}

InitSummary ==
    /\ request \in [segments : UNION {[1..n -> SummarySegments] : n \in 0..MaxSegments}]
    /\ text = JoinSentences(request.segments)
    /\ DefaultConfig
    /\ ChunkerIdle
    /\ cleaned = <<>>
    /\ recleaned = <<>>
    /\ document = None
    /\ clock = 0
    /\ result = None
    /\ calls = <<>>
    /\ store = <<>>
    /\ pc = "summary_args"

\* summary = self._generate_summary(text)
Summarise ==
    /\ pc = "summary_args"
    /\ result' = GenerateSummary(text)
    /\ pc' = "summarised"
    /\ UNCHANGED <<text, configVars, chunkerVars, cleanVars, request, document, clock, calls, store>>

NextSummary == Summarise

SpecSummary == InitSummary /\ [][NextSummary]_vars

\* ---------------------------------------------- claims on _generate_summary
\* Where the first up-to-3 segments, with the ". " between them, end in the
\* text.
JoinedLen ==
    LET segs == request.segments
        k == Min(Len(segs), SummarySentences)
    IN IF k = 0 THEN 0
       ELSE (IF k >= 1 THEN Len(segs[1]) ELSE 0)
            + (IF k >= 2 THEN 2 + Len(segs[2]) ELSE 0)
            + (IF k >= 3 THEN 2 + Len(segs[3]) ELSE 0)

\* C20: _generate_summary returns the first up-to-3 segments of the text
\* split on ". ", rejoined with ". ", when that has at most 500 characters,
\* and otherwise its first 500 characters followed by "..."; the result never
\* has more than 503 characters.
C20_SummaryOfFirstThree ==
    pc = "summarised" =>
        \E joined \in {SubSeq(text, 1, JoinedLen)} :
            /\ result = (IF Len(joined) <= SummaryMaxLen THEN joined
                         ELSE SubSeq(joined, 1, SummaryMaxLen) \o <<".", ".", ".">>)
            /\ Len(result) <= SummaryMaxLen + 3

\* A text of more than 3 segments whose first three join to more than 500
\* characters: the summary has 503 characters and ends in "...".
C20_Witness ==
    /\ pc = "summarised"
    /\ Len(request.segments) > SummarySentences
    /\ JoinedLen > SummaryMaxLen
    /\ JoinedLen < Len(text)
    /\ Len(result) = SummaryMaxLen + 3
    /\ SubSeq(result, SummaryMaxLen + 1, SummaryMaxLen + 3) = <<".", ".", ".">>

\* ============================================================================
\* src/src/services/text_extractor.py
\* ============================================================================
\* What a call ends with: a returned text, or a raised exception whose
\* messages are listed outermost first.
Returned(t) == [ok |-> TRUE, text |-> t, error |-> <<>>]
Raised(messages) == [ok |-> FALSE, text |-> <<>>, error |-> messages]

\* One call made on the way, and what a function did: its end and its calls.
Call(op, index) == [op |-> op, index |-> index]
Outcome(ret, made) == [ret |-> ret, calls |-> made]

\* '\n\n'.join(text_content)
RECURSIVE JoinBlank(_)
JoinBlank(parts) ==
    IF parts = <<>> THEN <<>>
    ELSE IF Len(parts) = 1 THEN parts[1]
         ELSE parts[1] \o <<"\n", "\n">> \o JoinBlank(Tail(parts))

\* The parsed form of file_content: what pypdf, zipfile and python-docx make
\* of the bytes (malformed: the parser raises), and the bytes themselves for
\* a text file.
NoContent ==
    [malformed |-> FALSE, pages |-> <<>>, entries |-> <<>>, bytes |-> <<>>,
     paragraphs |-> <<>>, cells |-> <<>>]

\* --------------------------------------------------------- _extract_from_pdf
\* The page loop with a raising page ending it (break instead of continue).
RECURSIVE PdfPagesBreak(_, _, _, _)
PdfPagesBreak(pages, page_num, text_content, made) ==
    IF page_num > Len(pages) THEN [text_content |-> text_content, calls |-> made]
    ELSE LET page == pages[page_num]
             made1 == Append(made, Call("page.extract_text", page_num))
         IN IF page.raises
            THEN [text_content |-> text_content, calls |-> made1]
            ELSE IF page.text /= <<>>
                 THEN PdfPagesBreak(pages, page_num + 1, Append(text_content, page.text), made1)
                 ELSE PdfPagesBreak(pages, page_num + 1, text_content, made1)

\* for page_num, page in enumerate(pdf_reader.pages): pages are numbered from
\* 1 here; a raising page and a page with empty text add nothing.
RECURSIVE PdfPages(_, _, _, _)
PdfPages(pages, page_num, text_content, made) ==
    IF page_num > Len(pages) THEN [text_content |-> text_content, calls |-> made]
    ELSE LET page == pages[page_num]
             made1 == Append(made, Call("page.extract_text", page_num))
         IN IF page.raises
            THEN PdfPages(pages, page_num + 1, text_content, made1)
            ELSE IF page.text /= <<>>
                 THEN PdfPages(pages, page_num + 1, Append(text_content, page.text), made1)
                 ELSE PdfPages(pages, page_num + 1, text_content, made1)

ExtractFromPdf(file_content) ==
    IF file_content.malformed
    THEN Outcome(Raised(<<"Failed to extract PDF text", "PdfReadError">>), <<>>)
    ELSE LET loop == PdfPages(file_content.pages, 1, <<>>, <<>>)
         IN IF loop.text_content = <<>>
            THEN Outcome(Raised(<<"Failed to extract PDF text",
                                  "No readable text found in PDF">>), loop.calls)
            ELSE Outcome(Returned(JoinBlank(loop.text_content)), loop.calls)

\* ---------------------------------------------------- _extract_text_from_html
\* 1-based position of the first occurrence of sub (given in lower case) in s
\* at or after position from, compared without regard to case; 0 if none.
FindFrom(s, sub, from) ==
    LET hits == {i \in from..(Len(s) - Len(sub) + 1) :
                    Lower(SubSeq(s, i, i + Len(sub) - 1)) = sub}
    IN IF hits = {} THEN 0 ELSE CHOOSE i \in hits : \A j \in hits : i <= j

\* re.sub(r'<script.*?</script>', '', s, flags=DOTALL | IGNORECASE) and the
\* same for style: from each opening to the nearest closing after it.
RECURSIVE RemoveElements(_, _, _)
RemoveElements(s, opening, closing) ==
    LET i == FindFrom(s, opening, 1)
        j == IF i = 0 THEN 0 ELSE FindFrom(s, closing, i + Len(opening))
    IN IF j = 0 THEN s
       ELSE SubSeq(s, 1, i - 1)
            \o RemoveElements(SubSeq(s, j + Len(closing), Len(s)), opening, closing)

\* re.sub(r'<[^>]+>', '', s): a "<" up to the next ">" with at least one
\* character between them.
RECURSIVE RemoveTags(_)
RemoveTags(s) ==
    IF s = <<>> THEN <<>>
    ELSE LET closes == {j \in 2..Len(s) : s[j] = ">"}
             j == IF closes = {} THEN 0 ELSE CHOOSE k \in closes : \A m \in closes : k <= m
         IN IF Head(s) = "<" /\ j >= 3
            THEN RemoveTags(SubSeq(s, j + 1, Len(s)))
            ELSE <<Head(s)>> \o RemoveTags(Tail(s))

\* html.unescape, for the one entity the model's documents use: &amp;
RECURSIVE Unescape(_)
Unescape(s) ==
    IF s = <<>> THEN <<>>
    ELSE IF Len(s) >= 5 /\ SubSeq(s, 1, 5) = <<"&", "a", "m", "p", ";">>
         THEN <<"&">> \o Unescape(SubSeq(s, 6, Len(s)))
         ELSE <<Head(s)>> \o Unescape(Tail(s))

ExtractTextFromHtml(html_content) ==
    LET no_script == RemoveElements(html_content,
                         <<"<", "s", "c", "r", "i", "p", "t">>,
                         <<"<", "/", "s", "c", "r", "i", "p", "t", ">">>)
        no_style == RemoveElements(no_script,
                         <<"<", "s", "t", "y", "l", "e">>,
                         <<"<", "/", "s", "t", "y", "l", "e", ">">>)
    IN Strip(CollapseWhitespace(Unescape(RemoveTags(no_style))))

\* -------------------------------------------------------- _extract_from_epub
\* name.endswith(suffix)
EndsWith(s, suffix) ==
    Len(s) >= Len(suffix) /\ SubSeq(s, Len(s) - Len(suffix) + 1, Len(s)) = suffix

\* ('.html', '.xhtml', '.htm')
ContentSuffixes ==
    {<<".", "h", "t", "m", "l">>, <<".", "x", "h", "t", "m", "l">>, <<".", "h", "t", "m">>}

IsContentFile(name) == \E suffix \in ContentSuffixes : EndsWith(name, suffix)

\* html_files, as positions in zip_file.namelist()
HtmlFiles(entries) ==
    SelectSeq([i \in 1..Len(entries) |-> i], LAMBDA i : IsContentFile(entries[i].name))

\* The entry loop with a failing entry ending it (break instead of continue).
RECURSIVE EpubFilesBreak(_, _, _, _, _)
EpubFilesBreak(entries, html_files, k, text_content, made) ==
    IF k > Len(html_files) THEN [text_content |-> text_content, calls |-> made]
    ELSE LET entry == entries[html_files[k]]
             made1 == Append(made, Call("zip_file.read", html_files[k]))
             t == ExtractTextFromHtml(entry.html)
         IN IF ~entry.decodes
            THEN [text_content |-> text_content, calls |-> made1]
            ELSE IF t /= <<>>
                 THEN EpubFilesBreak(entries, html_files, k + 1, Append(text_content, t), made1)
                 ELSE EpubFilesBreak(entries, html_files, k + 1, text_content, made1)

\* for html_file in html_files: an entry whose read or decode raises and an
\* entry whose text is empty add nothing.
RECURSIVE EpubFiles(_, _, _, _, _)
EpubFiles(entries, html_files, k, text_content, made) ==
    IF k > Len(html_files) THEN [text_content |-> text_content, calls |-> made]
    ELSE LET entry == entries[html_files[k]]
             made1 == Append(made, Call("zip_file.read", html_files[k]))
             t == ExtractTextFromHtml(entry.html)
         IN IF ~entry.decodes
            THEN EpubFiles(entries, html_files, k + 1, text_content, made1)
            ELSE IF t /= <<>>
                 THEN EpubFiles(entries, html_files, k + 1, Append(text_content, t), made1)
                 ELSE EpubFiles(entries, html_files, k + 1, text_content, made1)

ExtractFromEpub(file_content) ==
    IF file_content.malformed
    THEN Outcome(Raised(<<"Failed to extract EPUB text", "BadZipFile">>), <<>>)
    ELSE LET html_files == HtmlFiles(file_content.entries)
             loop == EpubFiles(file_content.entries, html_files, 1, <<>>, <<>>)
         IN IF html_files = <<>>
            THEN Outcome(Raised(<<"Failed to extract EPUB text",
                                  "No readable content files found in EPUB">>), <<>>)
            ELSE IF loop.text_content = <<>>
                 THEN Outcome(Raised(<<"Failed to extract EPUB text",
                                       "No readable text found in EPUB">>), loop.calls)
                 ELSE Outcome(Returned(JoinBlank(loop.text_content)), loop.calls)

\* --------------------------------------------------------- _extract_from_txt
\* The character with the given code point; code points outside this table
\* are named by their number.
Chr(n) ==
    IF n = 10 THEN "\n"
    ELSE IF n = 32 THEN " "
    ELSE IF n = 35 THEN "#"
    ELSE IF n = 46 THEN "."
    ELSE IF n \in 65..90 THEN UpperLetters[n - 64]
    ELSE IF n \in 97..122 THEN LowerLetters[n - 96]
    ELSE ToString(n)

Decoded(t) == [ok |-> TRUE, text |-> t]
UnicodeDecodeError == [ok |-> FALSE, text |-> <<>>]

\* bytes.decode('utf-8') on bytes below 0xE0: an ASCII byte is a character, a
\* byte 0xC2..0xDF leads a two-byte character and needs a continuation byte
\* 0x80..0xBF behind it, every other byte is invalid.
RECURSIVE DecodeUtf8(_)
DecodeUtf8(bytes) ==
    IF bytes = <<>> THEN Decoded(<<>>)
    ELSE IF bytes[1] < 128
         THEN LET rest == DecodeUtf8(Tail(bytes))
              IN IF rest.ok THEN Decoded(<<Chr(bytes[1])>> \o rest.text) ELSE rest
         ELSE IF bytes[1] \in 194..223 /\ Len(bytes) >= 2 /\ bytes[2] \in 128..191
              THEN LET rest == DecodeUtf8(SubSeq(bytes, 3, Len(bytes)))
                   IN IF rest.ok
                      THEN Decoded(<<Chr((bytes[1] - 192) * 64 + (bytes[2] - 128))>> \o rest.text)
                      ELSE rest
              ELSE UnicodeDecodeError

\* The characters of a sequence of UTF-16 code units: a high surrogate needs
\* a low surrogate behind it, a low surrogate alone is invalid.
RECURSIVE DecodeUnits(_)
DecodeUnits(units) ==
    IF units = <<>> THEN Decoded(<<>>)
    ELSE IF units[1] \in 55296..56319
         THEN IF Len(units) >= 2 /\ units[2] \in 56320..57343
              THEN LET rest == DecodeUnits(SubSeq(units, 3, Len(units)))
                   IN IF rest.ok
                      THEN Decoded(<<Chr(65536 + (units[1] - 55296) * 1024
                                         + (units[2] - 56320))>> \o rest.text)
                      ELSE rest
              ELSE UnicodeDecodeError
         ELSE IF units[1] \in 56320..57343
              THEN UnicodeDecodeError
              ELSE LET rest == DecodeUnits(Tail(units))
                   IN IF rest.ok THEN Decoded(<<Chr(units[1])>> \o rest.text) ELSE rest

\* bytes.decode('utf-16'): a leading FF FE or FE FF is the byte-order mark and
\* is dropped, without one the units are little-endian; an odd number of
\* bytes is invalid.
DecodeUtf16(bytes) ==
    LET marked == Len(bytes) >= 2 /\ {bytes[1], bytes[2]} = {254, 255}
        big == marked /\ bytes[1] = 254
        body == IF marked THEN SubSeq(bytes, 3, Len(bytes)) ELSE bytes
        units == [k \in 1..(Len(body) \div 2) |->
                     IF big THEN body[2 * k - 1] * 256 + body[2 * k]
                     ELSE body[2 * k - 1] + body[2 * k] * 256]
    IN IF Len(body) % 2 = 1 THEN UnicodeDecodeError ELSE DecodeUnits(units)

\* bytes.decode('latin-1'): every byte is the character with that code point.
DecodeLatin1(bytes) == Decoded([i \in 1..Len(bytes) |-> Chr(bytes[i])])

\* The code points cp1252 gives the bytes 0x80..0x9F; -1 where it has none.
Cp1252High ==
    <<8364, -1, 8218, 402, 8222, 8230, 8224, 8225, 710, 8240, 352, 8249, 338, -1, 381, -1,
      -1, 8216, 8217, 8220, 8221, 8226, 8211, 8212, 732, 8482, 353, 8250, 339, -1, 382, 376>>

Cp1252Point(b) == IF b \in 128..159 THEN Cp1252High[b - 127] ELSE b

\* bytes.decode('cp1252')
DecodeCp1252(bytes) ==
    IF \E i \in 1..Len(bytes) : Cp1252Point(bytes[i]) < 0
    THEN UnicodeDecodeError
    ELSE Decoded([i \in 1..Len(bytes) |-> Chr(Cp1252Point(bytes[i]))])

Decode(bytes, encoding) ==
    CASE encoding = "utf-8" -> DecodeUtf8(bytes)
      [] encoding = "utf-16" -> DecodeUtf16(bytes)
      [] encoding = "latin-1" -> DecodeLatin1(bytes)
      [] encoding = "cp1252" -> DecodeCp1252(bytes)

\* The list with Latin-1 tried first.
encodingsLatinFirst == <<"latin-1", "utf-8", "utf-16", "cp1252">>

\* ['utf-8', 'utf-16', 'latin-1', 'cp1252']
encodings == <<"utf-8", "utf-16", "latin-1", "cp1252">>

\* for encoding in encodings: return the first text that decodes
RECURSIVE TryEncodings(_, _, _)
TryEncodings(bytes, k, made) ==
    IF k > Len(encodings)
    THEN Outcome(Raised(<<"Failed to extract text file",
                          "Could not decode text file with any supported encoding">>), made)
    ELSE LET decoded == Decode(bytes, encodings[k])
             made1 == Append(made, Call(encodings[k], k))
         IN IF decoded.ok THEN Outcome(Returned(decoded.text), made1)
            ELSE TryEncodings(bytes, k + 1, made1)

ExtractFromTxt(file_content) == TryEncodings(file_content.bytes, 1, <<>>)

\* -------------------------------------------------------- _extract_from_docx
\* The paragraphs, then the table cells in table, row and cell order, that
\* are not blank.
ExtractFromDocx(file_content) ==
    LET text_content == SelectSeq(file_content.paragraphs \o file_content.cells,
                                  LAMBDA t : Strip(t) /= <<>>)
    IN IF file_content.malformed
       THEN Outcome(Raised(<<"Failed to extract DOCX text", "PackageNotFoundError">>), <<>>)
       ELSE IF text_content = <<>>
            THEN Outcome(Raised(<<"Failed to extract DOCX text",
                                  "No readable text found in DOCX">>), <<>>)
            ELSE Outcome(Returned(JoinBlank(text_content)), <<>>)

\* -------------------------------------------------------------- extract_text
\* self.supported_types: the extractor of each content type
supported_types ==
    [content_type \in {"application/pdf", "application/epub+zip", "text/plain",
                       "text/markdown",
                       "application/vnd.openxmlformats-officedocument.wordprocessingml.document"}
        |-> CASE content_type = "application/pdf" -> "_extract_from_pdf"
              [] content_type = "application/epub+zip" -> "_extract_from_epub"
              [] content_type \in {"text/plain", "text/markdown"} -> "_extract_from_txt"
              [] OTHER -> "_extract_from_docx"]

\* await extractor(file_content, filename)
Extractor(name, file_content) ==
    CASE name = "_extract_from_pdf" -> ExtractFromPdf(file_content)
      [] name = "_extract_from_epub" -> ExtractFromEpub(file_content)
      [] name = "_extract_from_txt" -> ExtractFromTxt(file_content)
      [] name = "_extract_from_docx" -> ExtractFromDocx(file_content)

\* extract_text handing on whatever text the extractor returned.
ExtractTextUnchecked(file_content, filename, content_type) ==
    IF content_type \notin DOMAIN supported_types
    THEN Outcome(Raised(<<"Unsupported file type">>), <<>>)
    ELSE LET extractor == supported_types[content_type]
             done == Extractor(extractor, file_content)
             made == <<Call(extractor, 0)>> \o done.calls
         IN IF ~done.ret.ok
            THEN Outcome(Raised(<<"Failed to extract text">> \o done.ret.error), made)
            ELSE Outcome(Returned(done.ret.text), made)

\* The unsupported type is refused before the try block; inside it, an
\* extractor's exception and a text that is empty or all whitespace both end
\* as "Failed to extract text: ...".
ExtractText(file_content, filename, content_type) ==
    IF content_type \notin DOMAIN supported_types
    THEN Outcome(Raised(<<"Unsupported file type">>), <<>>)
    ELSE LET extractor == supported_types[content_type]
             done == Extractor(extractor, file_content)
             made == <<Call(extractor, 0)>> \o done.calls
         IN IF ~done.ret.ok
            THEN Outcome(Raised(<<"Failed to extract text">> \o done.ret.error), made)
            ELSE IF done.ret.text = <<>> \/ Len(Strip(done.ret.text)) = 0
                 THEN Outcome(Raised(<<"Failed to extract text",
                                       "No text content found in file">>), made)
                 ELSE Outcome(Returned(done.ret.text), made)

\* ----------------------------------------------------------- extraction runs
MaxPages == 4
MaxEntries == 3
MaxBytes == 3
MaxParagraphs == 2

\* The sequences of up to n members of S.
SeqsUpTo(S, n) == UNION {[1..k -> S] : k \in 0..n}

\* page.extract_text(): raises, or returns no text, a text, or a blank text.
PageOutcomes ==
    {[raises |-> TRUE, text |-> <<>>],
     [raises |-> FALSE, text |-> <<>>],
     [raises |-> FALSE, text |-> <<"a">>],
     [raises |-> FALSE, text |-> <<"b">>],
     [raises |-> FALSE, text |-> <<" ">>]}

PdfContents ==
    {[NoContent EXCEPT !.pages = ps] : ps \in SeqsUpTo(PageOutcomes, MaxPages)}
    \cup {[NoContent EXCEPT !.malformed = TRUE]}

\* Archive entries: a page with text, a page with a script only, a page that
\* is not UTF-8, a page with an entity, a style sheet, and a page whose
\* extension is in upper case.
EpubEntries ==
    {[name |-> <<"a", ".", "h", "t", "m", "l">>, decodes |-> TRUE,
      html |-> <<"<", "p", ">", "a", "<", "/", "p", ">">>],
     [name |-> <<"b", ".", "x", "h", "t", "m", "l">>, decodes |-> TRUE,
      html |-> <<"<", "S", "c", "r", "i", "p", "t", ">", "a", "<", "/", "s", "c",
                 "r", "i", "p", "t", ">", "\n">>],
     [name |-> <<"c", ".", "h", "t", "m", "l">>, decodes |-> FALSE, html |-> <<>>],
     [name |-> <<"d", ".", "h", "t", "m">>, decodes |-> TRUE,
      html |-> <<"b", " ", "\n", "&", "a", "m", "p", ";", "<", "b", "r", "/", ">", "b">>],
     [name |-> <<"s", ".", "c", "s", "s">>, decodes |-> TRUE, html |-> <<"a">>],
     [name |-> <<"E", ".", "H", "T", "M", "L">>, decodes |-> TRUE, html |-> <<"a">>]}

EpubContents ==
    {[NoContent EXCEPT !.entries = es] : es \in SeqsUpTo(EpubEntries, MaxEntries)}
    \cup {[NoContent EXCEPT !.malformed = TRUE]}

\* Bytes: space, a, the two bytes of e-grave in UTF-8 (0xC3 0xA8), 0xD8 (the
\* high byte of a surrogate in UTF-16), and the two bytes of the byte-order
\* mark (0xFE, 0xFF).
ByteAlphabet == {32, 97, 195, 168, 216, 254, 255}

TxtContents ==
    {[NoContent EXCEPT !.bytes = bs] : bs \in SeqsUpTo(ByteAlphabet, MaxBytes)}

DocxTexts == {<<>>, <<" ">>, <<"a">>}

DocxContents ==
    {[NoContent EXCEPT !.paragraphs = ps, !.cells = cs] :
        ps \in SeqsUpTo(DocxTexts, MaxParagraphs), cs \in SeqsUpTo(DocxTexts, MaxParagraphs)}
    \cup {[NoContent EXCEPT !.malformed = TRUE]}

ExtractRequest(content_type, file_content) ==
    [filename |-> <<"f">>, content_type |-> content_type, file_content |-> file_content]

ExtractRequests ==
    {ExtractRequest("application/pdf", c) : c \in PdfContents}
    \cup {ExtractRequest("application/epub+zip", c) : c \in EpubContents}
    \cup {ExtractRequest(ct, c) : ct \in {"text/plain", "text/markdown"}, c \in TxtContents}
    \cup {ExtractRequest("application/vnd.openxmlformats-officedocument.wordprocessingml.document", c) :
            c \in DocxContents}
    \cup {ExtractRequest(ct, c) : ct \in {"image/png", "application/msword"},
                                  c \in {NoContent, [NoContent EXCEPT !.bytes = <<97>>]}}

InitExtract ==
    /\ request \in ExtractRequests
    /\ text = <<>>
    /\ DefaultConfig
    /\ ChunkerIdle
    /\ cleaned = <<>>
    /\ recleaned = <<>>
    /\ document = None
    /\ clock = 0
    /\ result = None
    /\ calls = <<>>
    /\ store = <<>>
    /\ pc = "extract_args"

\* A call's end and its calls are recorded.
Ends(done, at) ==
    /\ result' = done.ret
    /\ calls' = done.calls
    /\ pc' = at
    /\ UNCHANGED <<text, configVars, chunkerVars, cleanVars, request, document, clock, store>>

\* await text_extractor.extract_text(file_content, filename, content_type)
CallExtractText ==
    /\ pc = "extract_args"
    /\ Ends(ExtractText(request.file_content, request.filename, request.content_type),
            "extracted")

\* await self._extract_from_pdf(file_content, filename)
CallExtractFromPdf ==
    /\ pc = "extract_args"
    /\ request.content_type = "application/pdf"
    /\ Ends(ExtractFromPdf(request.file_content), "pdf_extracted")

\* await self._extract_from_epub(file_content, filename)
CallExtractFromEpub ==
    /\ pc = "extract_args"
    /\ request.content_type = "application/epub+zip"
    /\ Ends(ExtractFromEpub(request.file_content), "epub_extracted")

\* await self._extract_from_txt(file_content, filename)
CallExtractFromTxt ==
    /\ pc = "extract_args"
    /\ request.content_type \in {"text/plain", "text/markdown"}
    /\ Ends(ExtractFromTxt(request.file_content), "txt_extracted")

\* await self._extract_from_docx(file_content, filename)
CallExtractFromDocx ==
    /\ pc = "extract_args"
    /\ request.content_type \notin {"application/pdf", "application/epub+zip",
                                    "text/plain", "text/markdown"}
    /\ request.content_type \in DOMAIN supported_types
    /\ Ends(ExtractFromDocx(request.file_content), "docx_extracted")

NextExtract ==
    \/ CallExtractText
    \/ CallExtractFromPdf
    \/ CallExtractFromEpub
    \/ CallExtractFromTxt
    \/ CallExtractFromDocx

SpecExtract == InitExtract /\ [][NextExtract]_vars

\* ----------------------------------------------- claims on the text extractor
\* The text is the parts in their order with a blank line between them.
RECURSIVE IsBlankLineJoin(_, _)
IsBlankLineJoin(parts, t) ==
    IF parts = <<>> THEN t = <<>>
    ELSE IF Len(parts) = 1 THEN t = parts[1]
         ELSE LET n == Len(parts[1])
              IN /\ Len(t) >= n + 2
                 /\ SubSeq(t, 1, n) = parts[1]
                 /\ t[n + 1] = "\n"
                 /\ t[n + 2] = "\n"
                 /\ IsBlankLineJoin(Tail(parts), SubSeq(t, n + 3, Len(t)))

\* The texts of the pages that neither raise nor come back empty.
PdfSurvivors ==
    LET kept == SelectSeq(request.file_content.pages,
                          LAMBDA p : ~p.raises /\ p.text /= <<>>)
    IN [i \in 1..Len(kept) |-> kept[i].text]

\* C14: PDF extraction visits every page in order, a raising or empty page
\* included, without aborting; it returns the texts of the surviving pages in
\* page order with a blank line between them, and ends with an error, never
\* with a result, when no page yields text.
C14_PdfFoldOverPages ==
    (pc = "pdf_extracted" /\ ~request.file_content.malformed) =>
        /\ calls = [i \in 1..Len(request.file_content.pages) |->
                       Call("page.extract_text", i)]
        /\ result.ok <=> PdfSurvivors /= <<>>
        /\ result.ok => IsBlankLineJoin(PdfSurvivors, result.text)
        /\ ~result.ok =>
              result.error = <<"Failed to extract PDF text", "No readable text found in PDF">>

\* A raising page and an empty page ahead of two pages with text: the text of
\* the two, in their order.
C14_Witness ==
    /\ pc = "pdf_extracted"
    /\ Len(request.file_content.pages) = 4
    /\ request.file_content.pages[1].raises
    /\ request.file_content.pages[2] = [raises |-> FALSE, text |-> <<>>]
    /\ result.ok
    /\ result.text = <<"b", "\n", "\n", "a">>

\* The entries whose name ends in .html, .xhtml or .htm, and the texts of
\* those among them that decode and strip to a non-empty text.
ContentEntries ==
    SelectSeq(request.file_content.entries,
              LAMBDA e : \E suffix \in ContentSuffixes : EndsWith(e.name, suffix))

EpubYield ==
    LET kept == SelectSeq(ContentEntries,
                          LAMBDA e : e.decodes /\ ExtractTextFromHtml(e.html) /= <<>>)
    IN [i \in 1..Len(kept) |-> ExtractTextFromHtml(kept[i].html)]

\* C15: with no entry named .html, .xhtml or .htm, EPUB extraction fails with
\* "No readable content files found" and has read no entry; otherwise it
\* reads every such entry, skips those that fail to decode or strip to empty
\* text, and fails only if none yields text.
C15_EpubContentFiles ==
    (pc = "epub_extracted" /\ ~request.file_content.malformed) =>
        IF ContentEntries = <<>>
        THEN /\ ~result.ok
             /\ result.error = <<"Failed to extract EPUB text",
                                 "No readable content files found in EPUB">>
             /\ calls = <<>>
        ELSE /\ Len(calls) = Len(ContentEntries)
             /\ \A i \in 1..Len(calls) :
                   /\ calls[i].op = "zip_file.read"
                   /\ request.file_content.entries[calls[i].index] = ContentEntries[i]
             /\ result.ok <=> EpubYield /= <<>>
             /\ result.ok => IsBlankLineJoin(EpubYield, result.text)
             /\ ~result.ok =>
                   result.error = <<"Failed to extract EPUB text",
                                    "No readable text found in EPUB">>

\* An archive with entries, none of them a content file: the error, and no
\* entry read.
C15_Witness ==
    /\ pc = "epub_extracted"
    /\ ~request.file_content.malformed
    /\ Len(request.file_content.entries) >= 2
    /\ ContentEntries = <<>>
    /\ ~result.ok
    /\ calls = <<>>

\* C16: extract_text never returns an empty or all-whitespace text: for a
\* supported content type it returns a text with a non-whitespace character
\* or raises; for any other content type it raises the unsupported-type error
\* and calls no extractor.
C16_NeverBlankText ==
    pc = "extracted" =>
        IF request.content_type \in {"application/pdf", "application/epub+zip",
               "text/plain", "text/markdown",
               "application/vnd.openxmlformats-officedocument.wordprocessingml.document"}
        THEN /\ result.ok => \E i \in 1..Len(result.text) : result.text[i] \notin Whitespace
             /\ calls /= <<>>
        ELSE /\ ~result.ok
             /\ result.error = <<"Unsupported file type">>
             /\ calls = <<>>

\* A supported file whose extractor returns a text of whitespace only:
\* extract_text raises.
C16_Witness ==
    /\ pc = "extracted"
    /\ request.content_type \in DOMAIN supported_types
    /\ \E done \in {Extractor(supported_types[request.content_type], request.file_content)} :
          /\ done.ret.ok
          /\ done.ret.text /= <<>>
          /\ \A i \in 1..Len(done.ret.text) : done.ret.text[i] \in Whitespace
    /\ ~result.ok
    /\ result.error = <<"Failed to extract text", "No text content found in file">>

\* C17: plain-text extraction tries UTF-8, UTF-16, Latin-1, CP1252 in that
\* order, returns the text of the first that decodes the bytes and tries none
\* after it, and raises the undecodable error only if all four fail.
C17_FirstDecoderWins ==
    pc = "txt_extracted" =>
        LET order == <<"utf-8", "utf-16", "latin-1", "cp1252">>
            able == {k \in 1..4 : Decode(request.file_content.bytes, order[k]).ok}
        IN IF able = {}
           THEN /\ ~result.ok
                /\ result.error = <<"Failed to extract text file",
                                    "Could not decode text file with any supported encoding">>
           ELSE LET first == CHOOSE k \in able : \A j \in able : k <= j
                IN /\ result.ok
                   /\ result.text = Decode(request.file_content.bytes, order[first]).text
                   /\ calls = [i \in 1..first |-> Call(order[i], i)]

\* Bytes that are not UTF-8 and are UTF-16: two decoders tried, the second
\* one's text returned.
C17_Witness ==
    /\ pc = "txt_extracted"
    /\ ~DecodeUtf8(request.file_content.bytes).ok
    /\ DecodeUtf16(request.file_content.bytes).ok
    /\ result.ok
    /\ result.text = DecodeUtf16(request.file_content.bytes).text
    /\ Len(calls) = 2

\* ============================================================================
\* src/src/utils/file_validator.py, src/src/main.py: upload
\* ============================================================================
MAX_FILE_SIZE == 52428800

\* ALLOWED_FILE_EXTENSIONS
ALLOWED_FILE_EXTENSIONS ==
    {<<".", "p", "d", "f">>, <<".", "e", "p", "u", "b">>, <<".", "t", "x", "t">>,
     <<".", "m", "d">>, <<".", "d", "o", "c", "x">>}

\* ALLOWED_FILE_TYPES
ALLOWED_FILE_TYPES ==
    {"application/pdf", "application/epub+zip", "text/plain", "text/markdown",
     "application/vnd.openxmlformats-officedocument.wordprocessingml.document"}

\* os.path.splitext(filename)[1] for a name without directories: from the
\* last period on, unless only periods stand before it.
SplitExt(filename) ==
    LET p == RFind(filename, ".") + 1
    IN IF p = 0 \/ \A i \in 1..(p - 1) : filename[i] = "." THEN <<>>
       ELSE SubSeq(filename, p, Len(filename))

HTTPException(status_code, detail) ==
    [ok |-> FALSE, status_code |-> status_code, detail |-> detail]

Passed == [ok |-> TRUE, status_code |-> 200, detail |-> <<>>]

\* validate_file: file name, size when known (0: not known), extension,
\* content type, in this order; the first failing test raises status 400.
ValidateFile(file) ==
    IF file.filename = <<>>
    THEN HTTPException(400, <<"Filename is required">>)
    ELSE IF file.size /= 0 /\ file.size > MAX_FILE_SIZE
    THEN HTTPException(400, <<"File size exceeds maximum allowed size">>)
    ELSE IF SplitExt(file.filename) = <<>>
    THEN HTTPException(400, <<"File must have an extension">>)
    ELSE IF Lower(SplitExt(file.filename)) \notin ALLOWED_FILE_EXTENSIONS
    THEN HTTPException(400, <<"File extension not allowed">>)
    ELSE IF file.content_type = ""
    THEN HTTPException(400, <<"Content type is required">>)
    ELSE IF file.content_type \notin ALLOWED_FILE_TYPES
    THEN HTTPException(400, <<"Content type not allowed">>)
    ELSE Passed

\* insert_one's new _id: one the collection does not hold.
NewObjectId(books) ==
    1 + Max(0, IF books = <<>> THEN 0
               ELSE CHOOSE m \in {books[i]._id : i \in 1..Len(books)} :
                        \A j \in 1..Len(books) : books[j]._id <= m)

\* document.model_dump(by_alias=True, exclude={"id"}) with the _id insert_one
\* gives it.
StoredDocument(d, id) ==
    [_id |-> id, title |-> d.title, content |-> d.content, summary |-> d.summary,
     chunks |-> d.chunks, user_id |-> d.user_id, uploaded_at |-> d.uploaded_at,
     processed_at |-> d.processed_at, metadata |-> d.metadata, status |-> d.status]

\* save_document: db[Collections.BOOKS].insert_one(doc_dict)
SaveDocument(books, d) == Append(books, StoredDocument(d, NewObjectId(books)))

\* upload_document with a failed extraction not ending the upload.
UploadNextPastExtraction(stage, raised) ==
    IF raised /\ stage /= "extract_text" THEN "upload_failed"
    ELSE CASE stage = "validate_file" -> "validated"
           [] stage = "file.read" -> "read"
           [] stage = "extract_text" -> "extracted"
           [] stage = "process_document" -> "processed"
           [] stage = "save_document" -> "saved"

\* upload_document's try block: where the handler stands after a stage; an
\* exception in any stage leaves the block for the except clauses.
UploadNext(stage, raised) ==
    IF raised THEN "upload_failed"
    ELSE CASE stage = "validate_file" -> "validated"
           [] stage = "file.read" -> "read"
           [] stage = "extract_text" -> "extracted"
           [] stage = "process_document" -> "processed"
           [] stage = "save_document" -> "saved"

\* ---------------------------------------------------------------- upload runs
UploadFilenames ==
    {<<"a", ".", "t", "x", "t">>, <<"b", ".", "P", "D", "F">>,
     <<"c", ".", "e", "x", "e">>, <<".", "m", "d">>}

\* A text file, a blank text file, a UTF-16 text file (byte order mark and
\* the letter a), a PDF with a failing and a readable page, a PDF without
\* text, something that is no PDF, and an image.
UploadContents ==
    {<<"text/plain", [NoContent EXCEPT !.bytes = <<97, 32, 35, 97>>]>>,
     <<"text/plain", [NoContent EXCEPT !.bytes = <<32>>]>>,
     <<"text/plain", [NoContent EXCEPT !.bytes = <<255, 254, 97, 0>>]>>,
     <<"application/pdf",
       [NoContent EXCEPT !.pages = <<[raises |-> TRUE, text |-> <<>>],
                                     [raises |-> FALSE, text |-> <<"a", " ", "a">>]>>]>>,
     <<"application/pdf",
       [NoContent EXCEPT !.pages = <<[raises |-> FALSE, text |-> <<>>]>>]>>,
     <<"application/pdf", [NoContent EXCEPT !.malformed = TRUE]>>,
     <<"image/png", [NoContent EXCEPT !.bytes = <<97>>]>>}

\* The uploaded file and the user; size 0 stands for a size that is not known.
UploadRequests ==
    {[filename |-> f, content_type |-> c[1], file_content |-> c[2], size |-> n,
      user_id |-> u] :
        f \in UploadFilenames, c \in UploadContents,
        n \in {0, MAX_FILE_SIZE, MAX_FILE_SIZE + 1}, u \in {None, "u1"}}

InitUpload ==
    /\ request \in UploadRequests
    /\ text = <<>>
    /\ DefaultConfig
    /\ ChunkerIdle
    /\ cleaned = <<>>
    /\ recleaned = <<>>
    /\ document = None
    /\ clock = 0
    /\ result = None
    /\ calls = <<>>
    /\ store = <<>>
    /\ pc = "upload"

\* The stage is called; when it raises, the handler answers with the error.
Stage(stage, at, raised, error) ==
    /\ pc = at
    /\ calls' = Append(calls, Call(stage, 0))
    /\ pc' = UploadNext(stage, raised)
    /\ result' = IF raised THEN error ELSE result

\* validate_file(file)
UploadValidate ==
    /\ Stage("validate_file", "upload", ~ValidateFile(request).ok, ValidateFile(request))
    /\ UNCHANGED <<text, configVars, chunkerVars, cleanVars, request, document, clock, store>>

\* content = await file.read()
UploadRead ==
    /\ Stage("file.read", "validated", FALSE, result)
    /\ UNCHANGED <<text, configVars, chunkerVars, cleanVars, request, document, clock, store>>

\* extracted_text = await text_extractor.extract_text(content, file.filename,
\* file.content_type)
UploadExtract ==
    \E ret \in {ExtractText(request.file_content, request.filename,
                            request.content_type).ret} :
        /\ Stage("extract_text", "read", ~ret.ok,
                 HTTPException(500, <<"Upload failed">> \o ret.error))
        /\ text' = IF ret.ok THEN ret.text ELSE text
        /\ UNCHANGED <<configVars, chunkerVars, cleanVars, request, document, clock, store>>

\* processed_doc = await document_processor.process_document(...). Its body
\* does not raise on a string; a failure here is one from outside it, as
\* the test suite injects one, and comes out as "Failed to process document".
UploadProcess ==
    \E raised \in BOOLEAN :
        /\ Stage("process_document", "extracted", raised,
                 HTTPException(500, <<"Upload failed", "Failed to process document">>))
        /\ clock' = clock + 1
        /\ document' = IF raised THEN document
                       ELSE ProcessDocument(text, request.filename, request.content_type,
                                            request.user_id, chunk_size, chunk_overlap,
                                            min_chunk_size, clock')
        /\ UNCHANGED <<text, configVars, chunkerVars, cleanVars, request, store>>

\* doc_id = await document_processor.save_document(processed_doc, db), then
\* the response; a failing insert_one writes nothing.
UploadSave ==
    \E raised \in BOOLEAN :
        /\ pc = "processed"
        /\ calls' = Append(calls, Call("save_document", 0))
        /\ pc' = UploadNext("save_document", raised)
        /\ store' = IF raised THEN store ELSE SaveDocument(store, document)
        /\ result' = IF raised THEN HTTPException(500, <<"Upload failed", "insert_one">>)
                     ELSE [ok |-> TRUE, status_code |-> 200,
                           document_id |-> NewObjectId(store),
                           filename |-> request.filename, status |-> "processed",
                           chunks_count |-> Len(document.chunks)]
        /\ UNCHANGED <<text, configVars, chunkerVars, cleanVars, request, document, clock>>

NextUpload ==
    \/ UploadValidate
    \/ UploadRead
    \/ UploadExtract
    \/ UploadProcess
    \/ UploadSave

SpecUpload == InitUpload /\ [][NextUpload]_vars

\* ------------------------------------------------- claims on upload_document
\* C18: the upload's stages are called in the order validate, read, extract,
\* process, save; save is called only once process_document has returned a
\* Document, and that Document is what is stored; when validation, extraction
\* or processing fails, save is not called and the store stays as it was.
C18_SaveOnlyAfterProcess ==
    LET order == <<"validate_file", "file.read", "extract_text", "process_document",
                   "save_document">>
        saving == \E i \in 1..Len(calls) : calls[i].op = "save_document"
    IN /\ Len(calls) <= Len(order)
       /\ \A i \in 1..Len(calls) : calls[i].op = order[i]
       /\ saving =>
             /\ ValidateFile(request).ok
             /\ ExtractText(request.file_content, request.filename,
                            request.content_type).ret.ok
             /\ pc \in {"saved", "upload_failed"}
             /\ document.status = "completed"
             /\ document.content = CleanText(text)
       /\ ~saving => store = <<>>
       /\ store /= <<>> =>
             /\ pc = "saved"
             /\ store = <<StoredDocument(document, 1)>>
       /\ (pc = "upload_failed" /\ result.status_code = 400) => Len(calls) = 1

\* An upload whose processing failed: four stages called, none of them save,
\* nothing stored.
C18_Witness ==
    /\ pc = "upload_failed"
    /\ Len(calls) = 4
    /\ calls[4].op = "process_document"
    /\ document = None
    /\ store = <<>>

\* C21 as stated: the Document built for an uploaded text file carries the
\* file's size in bytes as metadata.file_size, whatever the length of the
\* extracted text.
C21_FileSizeInBytes ==
    (pc \in {"processed", "saved"} /\ request.content_type = "text/plain") =>
        document.metadata.file_size = Len(request.file_content.bytes)

\* ============================================================================
\* src/src/services/document_processor.py: get_document, reprocess_document
\* ============================================================================
MaxStoredLen == 3

\* ObjectId(document_id) raises on a string that is no ObjectId; 0 stands for
\* such a string.
InvalidId == 0

\* Whether find_one({"_id": ObjectId(document_id)}) has a document to give:
\* the id is an ObjectId and a stored document carries it.
Found(books, document_id) ==
    /\ document_id /= InvalidId
    /\ \E i \in 1..Len(books) : books[i]._id = document_id

\* find_one's document: the first stored one with this _id.
FindOne(books, document_id) ==
    books[CHOOSE i \in 1..Len(books) :
              /\ books[i]._id = document_id
              /\ \A j \in 1..(i - 1) : books[j]._id /= document_id]

\* get_document: None for an invalid id (the exception is swallowed) and for
\* a missing document; else the document, with id and chunks_count added to
\* the copy in hand.
GetDocument(books, document_id) ==
    IF ~Found(books, document_id) THEN None
    ELSE LET doc == FindOne(books, document_id)
         IN [f \in DOMAIN doc \cup {"id", "chunks_count"} |->
                IF f = "id" THEN ToString(doc._id)
                ELSE IF f = "chunks_count" THEN Len(doc.chunks)
                ELSE doc[f]]

\* reprocess_document writing back all of the new Document.
UpdateDataWhole(processed, now) ==
    [processed EXCEPT !.processed_at = now]

\* update_data
UpdateData(processed, now) ==
    [chunks |-> processed.chunks,
     summary |-> processed.summary,
     processed_at |-> now,
     status |-> "completed"]

\* update_one({"_id": ObjectId(document_id)}, {"$set": update_data}): the
\* first match gets the fields of update_data, every other field stays.
UpdateOne(books, document_id, update_data) ==
    LET hits == {i \in 1..Len(books) : books[i]._id = document_id}
    IN IF hits = {} THEN books
       ELSE LET m == CHOOSE i \in hits : \A j \in hits : i <= j
            IN [i \in 1..Len(books) |->
                   IF i /= m THEN books[i]
                   ELSE [f \in DOMAIN books[i] \cup DOMAIN update_data |->
                            IF f \in DOMAIN update_data THEN update_data[f]
                            ELSE books[i][f]]]

\* ------------------------------------------------------------- reprocess runs
\* The collection before the call: two uploads of earlier days, chunked under
\* the default settings.
Uploaded(t, filename, user_id, now) ==
    ProcessDocument(t, filename, "text/plain", user_id,
                    CHUNK_SIZE, CHUNK_OVERLAP, MIN_CHUNK_SIZE, now)

\* The raw texts of the first upload: every short one, and one whose
\* cleaned text keeps two spaces in a row.
StoredTexts ==
    TextsOver(ProcessAlphabet, MaxStoredLen) \cup {<<"a", " ", "#", " ", "a">>}

StoredBooks ==
    {SaveDocument(SaveDocument(<<>>, Uploaded(t, f, "u1", 1)),
                  Uploaded(<<"a">>, <<"a">>, None, 2)) :
        t \in StoredTexts, f \in Filenames}

\* The ids asked for: the two stored ones, one that is not stored, an
\* invalid one.
DocumentIds == {1, 2, 3, InvalidId}

InitReprocess ==
    /\ store \in StoredBooks
    /\ request \in [document_id : DocumentIds]
    /\ chunk_size \in 1..MaxChunkSize
    /\ chunk_overlap \in 1..MaxOverlap
    /\ min_chunk_size \in 1..MaxMinChunk
    /\ text = <<>>
    /\ ChunkerIdle
    /\ cleaned = <<>>
    /\ recleaned = <<>>
    /\ document = None
    /\ clock = 2
    /\ result = None
    /\ calls = <<>>
    /\ pc = "reprocess"

\* doc = await self.get_document(document_id, db); if not doc: return None
ReprocessGet ==
    LET doc == GetDocument(store, request.document_id)
    IN /\ pc = "reprocess"
       /\ calls' = Append(calls, Call("get_document", 0))
       /\ document' = doc
       /\ pc' = IF Found(store, request.document_id) THEN "got" ELSE "reprocess_none"
       /\ UNCHANGED <<text, configVars, chunkerVars, cleanVars, request, clock, result,
                      store>>

\* processed = await self.process_document(text=doc["content"], ...); a
\* failure of the call ends in the except clause, which returns None.
ReprocessProcess ==
    \E raised \in BOOLEAN :
        /\ pc = "got"
        /\ calls' = Append(calls, Call("process_document", 0))
        /\ clock' = clock + 1
        /\ document' = IF raised THEN document
                       ELSE ProcessDocument(document.content, document.title,
                                            document.metadata.file_type, document.user_id,
                                            chunk_size, chunk_overlap, min_chunk_size,
                                            clock')
        /\ pc' = IF raised THEN "reprocess_none" ELSE "reprocess_processed"
        /\ UNCHANGED <<text, configVars, chunkerVars, cleanVars, request, result, store>>

\* update_data with its own utcnow(), update_one, return {"chunks_count"}; a
\* failing update_one writes nothing and None is returned.
ReprocessUpdate ==
    \E raised \in BOOLEAN :
        /\ pc = "reprocess_processed"
        /\ calls' = Append(calls, Call("update_one", 0))
        /\ clock' = clock + 1
        /\ store' = IF raised THEN store
                    ELSE UpdateOne(store, request.document_id,
                                   UpdateData(document, clock'))
        /\ result' = IF raised THEN result
                     ELSE [chunks_count |-> Len(document.chunks)]
        /\ pc' = IF raised THEN "reprocess_none" ELSE "reprocessed"
        /\ UNCHANGED <<text, configVars, chunkerVars, cleanVars, request, document>>

NextReprocess ==
    \/ ReprocessGet
    \/ ReprocessProcess
    \/ ReprocessUpdate

SpecReprocess == InitReprocess /\ [][NextReprocess]_vars

\* --------------------------------------------- claims on reprocess_document
\* The fields reprocess_document may write, and the ones it must keep.
ReprocessedFields == {"chunks", "summary", "processed_at", "status"}
KeptFields == {"_id", "content", "title", "metadata", "user_id", "uploaded_at"}

\* One step of reprocess_document against the collection.
ReprocessFrame ==
    /\ Len(store') = Len(store)
    /\ \A i \in 1..Len(store) :
          /\ DOMAIN store'[i] = DOMAIN store[i]
          /\ DOMAIN store[i] = ReprocessedFields \cup KeptFields
          /\ \A f \in KeptFields : store'[i][f] = store[i][f]
          /\ store[i]._id /= request.document_id => store'[i] = store[i]
    /\ pc' /= "reprocessed" => store' = store
    /\ pc' = "reprocessed" =>
          \E i \in 1..Len(store') :
              /\ store'[i]._id = request.document_id
              /\ store'[i].chunks = document.chunks
              /\ store'[i].summary = document.summary
              /\ store'[i].processed_at = clock'
              /\ store'[i].status = "completed"

MaxSanitizedLen == 255

MaxStem == 256
MaxExt == 257

\* [<>:"/\\|?*]
SpecialChars == {"<", ">", ":", "\"", "/", "\\", "|", "?", "*"}

\* [\x00-\x1f\x7f-\x9f], of which the runs use tab, line feed and carriage
\* return.
ControlChars == {"\t", "\n", "\r"}

\* s[:n], n negative counting from the end.
SliceTo(s, n) ==
    IF n >= 0 THEN SubSeq(s, 1, Min(n, Len(s)))
    ELSE SubSeq(s, 1, Max(Len(s) + n, 0))

default_filename == <<"d", "o", "c", "u", "m", "e", "n", "t", ".", "t", "x", "t">>

SanitizeFilename(filename) ==
    LET removed == SelectSeq(filename, LAMBDA c : c \notin SpecialChars \cup ControlChars)
        ext == SplitExt(removed)
        name == SubSeq(removed, 1, Len(removed) - Len(ext))
        sanitized == IF Len(removed) > MaxSanitizedLen
                     THEN SliceTo(name, MaxSanitizedLen - Len(ext)) \o ext
                     ELSE removed
    IN IF sanitized = <<>> \/ Strip(sanitized) = <<>> THEN default_filename
       ELSE sanitized

\* ------------------------------------------------------------- sanitize runs
\* Stems and extensions around the limit of 255, and names with characters
\* that are removed.
StemLengths == {0, 1, 2} \cup (MaxSanitizedLen - 5)..MaxStem
ExtLengths == {0, 1, 4} \cup (MaxSanitizedLen - 1)..MaxExt

SanitizeFilenames ==
    {Rep("a", n) \o (IF m = 0 THEN <<>> ELSE <<".">> \o Rep("b", m - 1)) :
        n \in StemLengths, m \in ExtLengths}
    \cup {Rep(c, n) \o s : c \in {" ", "<", "\t", "/"}, n \in {0, 1, 2, MaxStem},
                           s \in {<<>>, <<" ">>, <<"a", "?", ".", "t", "x", "t">>,
                                  <<".", "*", "t">>}}

InitSanitize ==
    /\ request \in [filename : SanitizeFilenames]
    /\ text = <<>>
    /\ DefaultConfig
    /\ ChunkerIdle
    /\ cleaned = <<>>
    /\ recleaned = <<>>
    /\ document = None
    /\ clock = 0
    /\ result = None
    /\ calls = <<>>
    /\ store = <<>>
    /\ pc = "sanitize_args"

\* sanitize_filename(filename)
Sanitize ==
    /\ pc = "sanitize_args"
    /\ result' = SanitizeFilename(request.filename)
    /\ pc' = "sanitized"
    /\ UNCHANGED <<text, configVars, chunkerVars, cleanVars, request, document, clock,
                   calls, store>>

NextSanitize == Sanitize

SpecSanitize == InitSanitize /\ [][NextSanitize]_vars

\* ------------------------------------------------ claims on sanitize_filename
\* C22 as stated: the sanitized name is never longer than 255 characters,
\* also for an extension longer than 255, and it is document.txt when what
\* is left after the removals is empty or only whitespace.
C22_AtMost255 ==
    pc = "sanitized" =>
        /\ Len(result) <= MaxSanitizedLen
        /\ LET removed == SelectSeq(request.filename,
                                    LAMBDA c : c \notin SpecialChars \cup ControlChars)
           IN Strip(removed) = <<>> => result = default_filename

\* ============================================================================
\* _create_chunks: spans, sentence boundaries, order, coverage
\* ============================================================================
MaxSlack == 2

\* What stands between the runs of letters of a long text: nothing, a
\* sentence ending, or a space.
Marks == {<<>>, <<".">>, <<"!">>, <<"?">>, <<"\n">>, <<" ">>}

\* Texts longer than the search window: a first mark up to MaxSlack
\* characters from the start, a second one around the end of the first
\* candidate, and a tail.
LongTexts ==
    {Rep("a", n1) \o c1 \o Rep("a", n2) \o c2 \o Rep("a", n3) :
        n1 \in 0..MaxSlack, c1 \in Marks,
        n2 \in {0} \cup (SentenceWindow - 4)..(SentenceWindow - 2),
        c2 \in {<<>>, <<".">>, <<"\n">>}, n3 \in {1, 2, 4}}

\* Small texts chunked without overlap, and long texts chunked into chunks a
\* little longer than the search window.
InitBoundary ==
    /\ \/ /\ text \in TextsOver(ChunkAlphabet, MaxLen)
          /\ chunk_size \in 1..MaxChunkSize
          /\ chunk_overlap = 0
          /\ min_chunk_size \in 1..MaxMinChunk
       \/ /\ text \in LongTexts
          /\ chunk_size \in SentenceWindow..(SentenceWindow + MaxSlack)
          /\ chunk_overlap \in {0, MaxSlack}
          /\ min_chunk_size \in {1, SentenceWindow}
    /\ ChunkerIdle
    /\ cleaned = <<>>
    /\ recleaned = <<>>
    /\ ProcessIdle
    /\ pc = "entry"

SpecBoundary == InitBoundary /\ [][NextChunks]_vars

\* The candidate's end before the search, the start of its search window,
\* and the window positions after the first that hold a sentence ending.
End0(c) == Min(c.start + chunk_size, Len(text))
WindowStart(c) == Max(End0(c) - SentenceWindow, c.start)
EndingsInWindow(c) ==
    {p \in 1..(End0(c) - WindowStart(c) - 1) :
        text[WindowStart(c) + p + 1] \in sentence_endings}

\* C24: a candidate that stops short of the end of the text ends just after
\* the right-most sentence ending (. ! ? or newline) found at a position
\* p > 0 of the window text[max(end - 100, start):end]; with no such ending,
\* one at position 0 included, its end stays start + chunk_size; a candidate
\* reaching the end of the text ends there.
C24_EndAtLastSentenceEnding ==
    \A i \in 1..Len(candidates) :
        LET c == candidates[i]
            P == EndingsInWindow(c)
        IN IF End0(c) < Len(text) /\ P /= {}
           THEN /\ \E p \in P : /\ \A q \in P : q <= p
                                /\ c.end = WindowStart(c) + p + 1
                /\ text[c.end] \in sentence_endings
           ELSE /\ c.end = End0(c)
                /\ End0(c) < Len(text) => c.end = c.start + chunk_size

\* A finished run with a candidate whose window starts after the candidate
\* does and holds a sentence ending only at position 0, and one whose end
\* was moved back to a sentence ending.
C24_Witness ==
    /\ pc = "done"
    /\ \E i \in 1..Len(candidates) :
          /\ WindowStart(candidates[i]) > candidates[i].start
          /\ End0(candidates[i]) < Len(text)
          /\ text[WindowStart(candidates[i]) + 1] \in sentence_endings
          /\ candidates[i].end = End0(candidates[i])
    /\ \E i \in 1..Len(candidates) : candidates[i].end < End0(candidates[i])

\* C23: in the multi-chunk path every emitted chunk has
\* 0 <= start_position < end_position <= len(text), its content is the
\* stripped text[start_position:end_position], and its character_count is
\* the length of that content, at most the length of the span.
C23_SpansAndTrimmedContent ==
    MultiChunkPath =>
        \A i \in 1..Len(chunks) :
            /\ 0 <= chunks[i].start_position
            /\ chunks[i].start_position < chunks[i].end_position
            /\ chunks[i].end_position <= Len(text)
            /\ chunks[i].content =
                   Strip(Slice(text, chunks[i].start_position, chunks[i].end_position))
            /\ chunks[i].character_count = Len(chunks[i].content)
            /\ chunks[i].character_count
                   <= chunks[i].end_position - chunks[i].start_position

\* A finished multi-chunk run with a chunk whose content is shorter than its
\* span: whitespace at an edge of the span was stripped.
C23_Witness ==
    /\ pc = "done"
    /\ MultiChunkPath
    /\ \E i \in 1..Len(chunks) :
          chunks[i].character_count < chunks[i].end_position - chunks[i].start_position

\* C25: in the list of chunks start_position grows strictly with the index
\* and end_position never shrinks, also when the end was moved back to a
\* sentence ending and the overlap is as large as the chunks.
C25_StartsGrowEndsNeverShrink ==
    \A i \in 1..(Len(chunks) - 1) :
        /\ chunks[i].start_position < chunks[i + 1].start_position
        /\ chunks[i].end_position <= chunks[i + 1].end_position

\* A finished run under an overlap at least as large as the chunk size, in
\* which two chunks in a row end at the same sentence ending, short of the
\* end of the text.
C25_Witness ==
    /\ pc = "done"
    /\ chunk_overlap >= chunk_size
    /\ \E i \in 1..(Len(chunks) - 1) :
          /\ chunks[i].end_position = chunks[i + 1].end_position
          /\ chunks[i + 1].end_position
                 < Min(chunks[i + 1].start_position + chunk_size, Len(text))

\* The positions of the text that lie in the span of some emitted chunk.
Covered ==
    UNION {chunks[i].start_position..(chunks[i].end_position - 1) : i \in 1..Len(chunks)}

\* C26: in the multi-chunk path the first candidate starts at 0 and every
\* candidate starts at or before the end of the one before it; when the
\* loop is over some candidate ended at len(text), so the spans of the
\* emitted chunks cover exactly the positions 0..len(text)-1 if no
\* candidate was dropped, and every position they miss lies in a dropped
\* candidate.
C26_CandidatesCoverText ==
    MultiChunkPath =>
        /\ candidates /= <<>> => candidates[1].start = 0
        /\ \A i \in 1..(Len(candidates) - 1) :
              candidates[i + 1].start <= candidates[i].end
        /\ pc = "done" =>
              /\ \E i \in 1..Len(candidates) : candidates[i].end = Len(text)
              /\ Covered \subseteq 0..(Len(text) - 1)
              /\ (\A i \in 1..Len(candidates) : candidates[i].emitted) =>
                    Covered = 0..(Len(text) - 1)
              /\ \A pos \in (0..(Len(text) - 1)) \ Covered :
                    \E i \in 1..Len(candidates) :
                        /\ ~candidates[i].emitted
                        /\ candidates[i].start <= pos
                        /\ pos < candidates[i].end

\* A finished run without overlap in which no candidate was dropped, one
\* candidate ended early at a sentence ending, and the chunks cover the text.
C26_Witness ==
    /\ pc = "done"
    /\ MultiChunkPath
    /\ chunk_overlap = 0
    /\ Len(chunks) >= 2
    /\ \A i \in 1..Len(candidates) : candidates[i].emitted
    /\ \E i \in 1..Len(candidates) : candidates[i].end < End0(candidates[i])
    /\ Covered = 0..(Len(text) - 1)

\* C27 as stated: in the multi-chunk path no chunk follows a chunk that ends
\* at len(text), so the list never ends with a chunk lying inside the span
\* of the chunk before it.
C27_NothingAfterTheEnd ==
    MultiChunkPath =>
        \A i \in 1..(Len(chunks) - 1) : chunks[i].end_position /= Len(text)

\* ============================================================================
\* Stored chunks against stored content
\* ============================================================================
\* C28 as stated: after uploads and reprocessings every stored chunk's
\* content is the stripped stored_content[start_position:end_position].
C28_ChunksMatchStoredContent ==
    \A d \in 1..Len(store) :
        \A i \in 1..Len(store[d].chunks) :
            store[d].chunks[i].content =
                Strip(Slice(store[d].content, store[d].chunks[i].start_position,
                            store[d].chunks[i].end_position))

\* ------------------------------------ the text the title inferencer is given
\* The longest run of " #" pairs in the raw texts below.
MaxHashes == 496

\* n times " #": cleaning removes each "#" and leaves the blanks around it.
Hashes(n) == [i \in 1..(2 * n) |-> IF i % 2 = 1 THEN " " ELSE "#"]

InferenceHeads ==
    {<<"A", "b", "c", "d", "e", "f">>, <<"a", "b", "c", "d", "e", "f">>,
     <<"A", "b", "c", "d", "e">>}

InferenceTails ==
    {<<>>, <<" ", "a">>, <<"\n", "a">>, Rep("a", MaxLineLen - 7), Rep("a", MaxLineLen - 6)}

\* Raw texts whose cleaned form is short, just under or over 100 characters,
\* or longer than the 500 characters the title scan looks at.
InferenceTexts ==
    {h \o Hashes(n) \o t :
        h \in InferenceHeads,
        n \in {0, 1, 2, 46, 47, 48, MaxHashes - 3, MaxHashes - 2, MaxHashes - 1,
               MaxHashes},
        t \in InferenceTails}

\* "a" is too short and "file.txt" too generic to keep the filename-derived
\* title; "a_b.a" keeps it.
InferenceFilenames ==
    {<<"a">>, <<"f", "i", "l", "e", ".", "t", "x", "t">>, <<"a", "_", "b", ".", "a">>}

\* process_document under the configured chunk sizes.
InitInference ==
    /\ text \in InferenceTexts
    /\ chunk_size = CHUNK_SIZE
    /\ chunk_overlap = CHUNK_OVERLAP
    /\ min_chunk_size = MIN_CHUNK_SIZE
    /\ ChunkerIdle
    /\ cleaned = <<>>
    /\ recleaned = <<>>
    /\ request \in [filename : InferenceFilenames, file_type : {"text/plain"},
                    user_id : {None}]
    /\ document = None
    /\ clock = 0
    /\ result = None
    /\ calls = <<>>
    /\ store = <<>>
    /\ pc = "request"

SpecInference == InitInference /\ [][NextProcess]_vars

\* The cleaned text cut to the 500 characters _extract_title scans.
ScannedContent == Slice(document.content, 0, TitleScanChars)

\* C29: the text given to the title inferencer is the cleaned text, which
\* has no newline; when the filename-derived title is generic or shorter
\* than 3 characters, the title comes from the content only if the cleaned
\* text cut to 500 characters is longer than 5 and shorter than 100
\* characters and starts with an uppercase letter, and for any cleaned text
\* of 100 characters or more the title is the filename-derived one.
C29_TitleFromShortCleanedText ==
    (pc = "processed" /\ ScansText) =>
        /\ \A i \in 1..Len(document.content) : document.content[i] # "\n"
        /\ document.title # FilenameTitle =>
               /\ Len(ScannedContent) > MinLineLen
               /\ Len(ScannedContent) < MaxLineLen
               /\ IsUpper(ScannedContent[1])
        /\ Len(document.content) >= MaxLineLen => document.title = FilenameTitle

\* ============================================================================
\* reprocess_document against delete_document and another reprocess_document
\* ============================================================================
\* The requests in flight on the event loop: two reprocess calls and one
\* delete call for the same document id. A coroutine gives way only at an
\* await on the database, so each database operation is one step.
Reprocessors == {"reprocess_1", "reprocess_2"}
Deleter == "delete"
Tasks == Reprocessors \cup {Deleter}

\* delete_one({"_id": ObjectId(document_id)}): the first match is removed.
DeleteOne(books, document_id) ==
    LET hits == {i \in 1..Len(books) : books[i]._id = document_id}
    IN IF hits = {} THEN books
       ELSE LET m == CHOOSE i \in hits : \A j \in hits : i <= j
            IN SubSeq(books, 1, m - 1) \o SubSeq(books, m + 1, Len(books))

\* The endpoint's answer to what reprocess_document returned: a result dict
\* is never empty, so any of them is reported as a success.
ReprocessResponse(returned, chunks_count) ==
    IF ~returned THEN HTTPException(404, "Document not found")
    ELSE [ok |-> TRUE, status_code |-> 200,
          detail |-> "Document reprocessed successfully",
          chunks_count |-> chunks_count]

InitRace ==
    /\ store \in StoredBooks
    /\ request \in [document_id : DocumentIds]
    /\ chunk_size = CHUNK_SIZE
    /\ chunk_overlap = CHUNK_OVERLAP
    /\ min_chunk_size = MIN_CHUNK_SIZE
    /\ text = <<>>
    /\ ChunkerIdle
    /\ cleaned = <<>>
    /\ recleaned = <<>>
    /\ document = [p \in Tasks |-> None]
    /\ clock = 2
    /\ result = [p \in Tasks |-> None]
    /\ calls = <<>>
    /\ pc = [p \in Tasks |-> IF p = Deleter THEN "delete" ELSE "reprocess"]

\* doc = await self.get_document(document_id, db); if not doc: return None
RaceGet(p) ==
    /\ pc[p] = "reprocess"
    /\ document' = [document EXCEPT ![p] = GetDocument(store, request.document_id)]
    /\ pc' = [pc EXCEPT ![p] = IF Found(store, request.document_id) THEN "got"
                               ELSE "reprocess_none"]
    /\ UNCHANGED <<text, configVars, chunkerVars, cleanVars, request, clock, result,
                   calls, store>>

\* processed = await self.process_document(...), on the copy in hand.
RaceProcess(p) ==
    \E raised \in BOOLEAN :
        /\ pc[p] = "got"
        /\ clock' = clock + 1
        /\ document' =
              [document EXCEPT ![p] =
                  IF raised THEN @
                  ELSE ProcessDocument(@.content, @.title, @.metadata.file_type,
                                       @.user_id, chunk_size, chunk_overlap,
                                       min_chunk_size, clock')]
        /\ pc' = [pc EXCEPT ![p] = IF raised THEN "reprocess_none"
                                   ELSE "reprocess_processed"]
        /\ UNCHANGED <<text, configVars, chunkerVars, cleanVars, request, result, calls,
                       store>>

\* await update_one(...); return {"chunks_count": len(processed.chunks)}. The
\* result of update_one is not looked at.
RaceUpdate(p) ==
    \E raised \in BOOLEAN :
        /\ pc[p] = "reprocess_processed"
        /\ clock' = clock + 1
        /\ store' = IF raised THEN store
                    ELSE UpdateOne(store, request.document_id,
                                   UpdateData(document[p], clock'))
        /\ result' = [result EXCEPT ![p] =
                         IF raised THEN @ ELSE [chunks_count |-> Len(document[p].chunks)]]
        /\ pc' = [pc EXCEPT ![p] = IF raised THEN "reprocess_none" ELSE "reprocessed"]
        /\ UNCHANGED <<text, configVars, chunkerVars, cleanVars, request, document, calls>>

\* The endpoint: 404 on None, else the success message.
RaceRespond(p) ==
    /\ pc[p] \in {"reprocessed", "reprocess_none"}
    /\ result' = [result EXCEPT ![p] =
                     ReprocessResponse(pc[p] = "reprocessed", Len(document[p].chunks))]
    /\ pc' = [pc EXCEPT ![p] = "responded"]
    /\ UNCHANGED <<text, configVars, chunkerVars, cleanVars, request, document, clock,
                   calls, store>>

\* delete_document: delete_one, deleted_count > 0; False on an invalid id
\* and on a failing delete_one.
RaceDelete ==
    \E raised \in BOOLEAN :
        /\ pc[Deleter] = "delete"
        /\ store' = IF raised \/ request.document_id = InvalidId THEN store
                    ELSE DeleteOne(store, request.document_id)
        /\ result' = [result EXCEPT ![Deleter] =
                         ~raised /\ Found(store, request.document_id)]
        /\ pc' = [pc EXCEPT ![Deleter] = "deleted"]
        /\ UNCHANGED <<text, configVars, chunkerVars, cleanVars, request, document, clock,
                       calls>>

NextRace ==
    \/ \E p \in Reprocessors : RaceGet(p)
    \/ \E p \in Reprocessors : RaceProcess(p)
    \/ \E p \in Reprocessors : RaceUpdate(p)
    \/ \E p \in Reprocessors : RaceRespond(p)
    \/ RaceDelete

SpecRace == InitRace /\ [][NextRace]_vars

\* The collection holds the document asked for with the chunks and summary
\* this call computed and status completed.
HoldsResultOf(books, p) ==
    \E i \in 1..Len(books) :
        /\ books[i]._id = request.document_id
        /\ books[i].chunks = document[p].chunks
        /\ books[i].summary = document[p].summary
        /\ books[i].status = "completed"

\* The step in which reprocess_document returns to the endpoint.
ReturnsResult(p) == pc[p] = "reprocess_processed" /\ pc'[p] = "reprocessed"

RaceSuccessMeansStored ==
    \A p \in Reprocessors :
        /\ ReturnsResult(p) => HoldsResultOf(store', p)
        /\ (pc[p] = "reprocess_processed" /\ pc'[p] /= pc[p]
              /\ ~Found(store, request.document_id)) => pc'[p] = "reprocess_none"

\* C30: under any interleaving of reprocess_document(X) with
\* delete_document(X) or another reprocess_document(X), when a reprocess
\* call returns a result the collection holds document X with exactly the
\* chunks and summary that call computed and status completed, and a call
\* whose update matched no document returns None, not a result.
C30_SuccessMeansStored == [][RaceSuccessMeansStored]_vars

====
